---- MODULE Spec2Model ----
(***************************************************************************)
(* Model of the Bedrock invocation client of wilma (src/app/wilma.py):     *)
(* the chunk wrappers, the retrying stream iterator, the non-streaming     *)
(* retry loop of BedrockClient.create_message and the stream consumer of   *)
(* the chat loop in main().                                                *)
(*                                                                         *)
(* The transport (boto3's bedrock-runtime client) is the environment: each *)
(* call to it, and each event read from a stream it returned, is an input  *)
(* chosen nondeterministically.  Texts of chunks are strings; texts of     *)
(* error messages are sequences of character codes, so that str.lower()    *)
(* and the substring test of the error classification are computed.        *)
(***************************************************************************)
EXTENDS Integers, Sequences, FiniteSets, TLC

\* ------------------------------------------------------------------ bounds

\* Largest max_retries a directly driven client or iterator is built with.
MaxRetries == 2

\* Most raw events the transport's streams deliver in one run.
MaxEvents == 3

\* Most pulls a direct caller makes on one iterator.
MaxPulls == 3

\* Most user turns of the chat loop.
MaxTurns == 1

\* Most raw events of the full range of shapes a stream delivers in one run.
MaxShapesRead == 1

\* Most messages a caller's list holds.
MaxMessages == 3

\* Most raw events a second invocation of the same client reads.
MaxPeerReads == 1

\* The draws of random.uniform are the fractions 0/JitterSteps .. JitterSteps/JitterSteps.
JitterSteps == 2

\* ------------------------------------------------------ program constants

\* main(): BedrockClient(region_name=region, max_retries=6, ...)
ClientMaxRetries == 6

\* Durations are in milliseconds.
\* main(): BedrockClient(..., base_delay=1.0, ...), the default of both constructors.
ClientBaseDelay == 1000

\* main(): BedrockClient(..., max_delay=20.0), the default of both constructors.
ClientMaxDelay == 20000

\* create_message: `max_tokens or 4096`
DefaultMaxTokens == 4096

\* create_message: `temperature or 0.7`; temperatures are in tenths.
DefaultTemperature == 7

\* model_config.py: "max_tokens": 4096 and "temperature": 0.5 of a model.
ModelMaxTokens == 4096
ModelTemperature == 5

\* base_delay and max_delay a directly built client or iterator is given
\* (nothing validates them): the defaults, a cap below the base, a cap the
\* doubling reaches, zero and negative durations.
BaseDelays == {-1000, 0, 1000, 2000}
MaxDelays == {-1000, 0, 1000, 3000, 20000}

\* ------------------------------------------------------------- characters

\* str.lower() on the characters of the messages: A-Z map to a-z.
LowerChar(c) == IF c \in 65..90 THEN c + 32 ELSE c

Lower(s) == [i \in 1..Len(s) |-> LowerChar(s[i])]

\* Python's `needle in hay` on strings.
Contains(hay, needle) ==
    \E i \in 0..(Len(hay) - Len(needle)) :
        SubSeq(hay, i + 1, i + Len(needle)) = needle

\* 'serviceunavailableexception'
ServiceUnavailableNeedle ==
    <<115,101,114,118,105,99,101,117,110,97,118,97,105,108,97,98,108,101,
      101,120,99,101,112,116,105,111,110>>

\* ---------------------------------------------------------------- errors

\* The exceptions the transport raises, by name; ErrorText gives str(e).
TransportErrors ==
    { "su_client", "su_upper",
      "access_denied", "malformed", "unknown_model", "near_miss" }

\* Raised by BedrockChunkWrapper / BedrockResponseWrapper on an empty content list.
IndexError == "index_error"

ErrorText(e) ==
    CASE e = "su_client" ->
           \* An error occurred (ServiceUnavailableException) when calling InvokeModel
           <<65,110,32,101,114,114,111,114,32,111,99,99,117,114,114,101,100,32,
             40,83,101,114,118,105,99,101,85,110,97,118,97,105,108,97,98,108,
             101,69,120,99,101,112,116,105,111,110,41,32,119,104,101,110,32,
             99,97,108,108,105,110,103,32,73,110,118,111,107,101,77,111,100,
             101,108>>
      [] e = "su_event" ->
           \* serviceUnavailableException: try again
           <<115,101,114,118,105,99,101,85,110,97,118,97,105,108,97,98,108,
             101,69,120,99,101,112,116,105,111,110,58,32,116,114,121,32,97,
             103,97,105,110>>
      [] e = "su_upper" ->
           \* SERVICEUNAVAILABLEEXCEPTION
           <<83,69,82,86,73,67,69,85,78,65,86,65,73,76,65,66,76,69,69,88,67,
             69,80,84,73,79,78>>
      [] e = "access_denied" ->
           \* AccessDeniedException: not authorized
           <<65,99,99,101,115,115,68,101,110,105,101,100,69,120,99,101,112,
             116,105,111,110,58,32,110,111,116,32,97,117,116,104,111,114,105,
             122,101,100>>
      [] e = "malformed" ->
           \* ValidationException: Malformed input request
           <<86,97,108,105,100,97,116,105,111,110,69,120,99,101,112,116,105,
             111,110,58,32,77,97,108,102,111,114,109,101,100,32,105,110,112,
             117,116,32,114,101,113,117,101,115,116>>
      [] e = "unknown_model" ->
           \* ResourceNotFoundException: unknown model
           <<82,101,115,111,117,114,99,101,78,111,116,70,111,117,110,100,69,
             120,99,101,112,116,105,111,110,58,32,117,110,107,110,111,119,110,
             32,109,111,100,101,108>>
      [] e = "near_miss" ->
           \* Service Unavailable
           <<83,101,114,118,105,99,101,32,85,110,97,118,97,105,108,97,98,108,
             101>>
      [] e = "index_error" ->
           \* list index out of range
           <<108,105,115,116,32,105,110,100,101,120,32,111,117,116,32,111,102,
             32,114,97,110,103,101>>

\* A classification that compares nothing case-insensitively.
IsServiceUnavailable_CaseSensitive(e) ==
    Contains(ErrorText(e), ServiceUnavailableNeedle)

\* A classification that takes every "...Exception" for a transient error.
IsServiceUnavailable_AnyException(e) ==
    Contains(Lower(ErrorText(e)), <<101,120,99,101,112,116,105,111,110>>)

\* 'serviceunavailableexception' in str(e).lower()
IsServiceUnavailable(e) ==
    Contains(Lower(ErrorText(e)), ServiceUnavailableNeedle)

\* str(n), the decimal digits of an integer as character codes.
RECURSIVE Digits(_)
Digits(n) ==
    IF n < 10 THEN <<48 + n>> ELSE Append(Digits(n \div 10), 48 + (n % 10))

IntStr(n) == IF n < 0 THEN <<45>> \o Digits(0 - n) ELSE Digits(n)

\* 'Maximum retries ('
MaximumRetriesPrefix == <<77,97,120,105,109,117,109,32,114,101,116,114,105,101,115,32,40>>

\* ') exceeded. Last error: '
ExceededLastError == <<41,32,101,120,99,101,101,100,101,100,46,32,76,97,115,116,32,101,114,114,111,114,58,32>>

\* A message that names the budget but not the cause.
MaxRetriesExceededMessage_NoCause(m, e) ==
    MaximumRetriesPrefix \o IntStr(m) \o ExceededLastError

\* f"Maximum retries ({self.max_retries}) exceeded. Last error: {str(e)}"
MaxRetriesExceededMessage(m, e) ==
    MaximumRetriesPrefix \o IntStr(m) \o ExceededLastError \o ErrorText(e)

\* ---------------------------------------------------------------- backoff

Min(a, b) == IF a <= b THEN a ELSE b

\* 2 ** n
RECURSIVE Pow2(_)
Pow2(n) == IF n <= 0 THEN 1 ELSE 2 * Pow2(n - 1)

\* random.uniform(a, b) = a + (b - a) * random(), for the draw k / JitterSteps.
uniform(a, b, k) == a + ((b - a) * k) \div JitterSteps

\* min(self.max_delay, self.base_delay * (2 ** self.attempt))
exp_delay(base, max, a) == Min(max, base * Pow2(a))

\* A backoff that takes the jitter off the delay.
calculate_delay_Subtracts(base, max, a, k) ==
    exp_delay(base, max, a) - uniform(0, exp_delay(base, max, a) \div 10, k)

\* A backoff without the cap.
calculate_delay_Uncapped(base, max, a, k) ==
    base * Pow2(a) + uniform(0, (base * Pow2(a)) \div 10, k)

\* _calculate_delay(): exp_delay + random.uniform(0, 0.1 * exp_delay).
calculate_delay(base, max, a, k) ==
    exp_delay(base, max, a) + uniform(0, exp_delay(base, max, a) \div 10, k)

\* An inline computation that leaves the jitter out.
total_delay_NoJitter(base, max, a, k) == Min(max, base * Pow2(a))

\* create_message, inline: delay = min(max_delay, base_delay * (2 ** attempt)),
\* jitter = random.uniform(0, 0.1 * delay), total_delay = delay + jitter.
total_delay(base, max, a, k) ==
    Min(max, base * Pow2(a)) + uniform(0, Min(max, base * Pow2(a)) \div 10, k)

\* ------------------------------------------------------------ chunk model

\* A Python dict is a record; `k in d` is k \in DOMAIN d.
Has(d, k) == k \in DOMAIN d

\* BedrockDeltaWrapper(delta).text
BedrockDeltaWrapper(delta) ==
    [text |-> IF Has(delta, "text") THEN delta.text ELSE ""]

\* A wrapper without the fallback to the content list.
BedrockChunkWrapper_DeltaOnly(chunk) ==
    [raises |-> "none",
     type |-> IF Has(chunk, "type") THEN chunk.type ELSE "content_block_delta",
     delta |-> IF Has(chunk, "delta") THEN BedrockDeltaWrapper(chunk.delta)
               ELSE [text |-> ""]]

\* A wrapper that takes every event for a content delta.
BedrockChunkWrapper_TypeIgnored(chunk) ==
    LET contentList == IF Has(chunk, "content") THEN chunk.content
                       ELSE <<[text |-> ""]>>
    IN  IF Has(chunk, "delta")
        THEN [raises |-> "none", type |-> "content_block_delta",
              delta |-> BedrockDeltaWrapper(chunk.delta)]
        ELSE IF Len(contentList) = 0
        THEN [raises |-> IndexError, type |-> "content_block_delta",
              delta |-> [text |-> ""]]
        ELSE [raises |-> "none", type |-> "content_block_delta",
              delta |-> BedrockDeltaWrapper(
                  [text |-> IF Has(contentList[1], "text")
                            THEN contentList[1].text ELSE ""])]

\* BedrockChunkWrapper(chunk): the chunk built, or the exception raised.
BedrockChunkWrapper(chunk) ==
    LET type == IF Has(chunk, "type") THEN chunk.type ELSE "content_block_delta"
        contentList == IF Has(chunk, "content") THEN chunk.content
                       ELSE <<[text |-> ""]>>
    IN  IF Has(chunk, "delta")
        THEN [raises |-> "none", type |-> type,
              delta |-> BedrockDeltaWrapper(chunk.delta)]
        ELSE IF Len(contentList) = 0
        THEN [raises |-> IndexError, type |-> type, delta |-> [text |-> ""]]
        ELSE [raises |-> "none", type |-> type,
              delta |-> BedrockDeltaWrapper(
                  [text |-> IF Has(contentList[1], "text")
                            THEN contentList[1].text ELSE ""])]

\* BedrockResponseWrapper(response): content[0].text, or the exception raised.
BedrockResponseWrapper(response) ==
    LET contentList == IF Has(response, "content") THEN response.content
                       ELSE <<[text |-> ""]>>
    IN  IF Len(contentList) = 0
        THEN [raises |-> IndexError, text |-> ""]
        ELSE [raises |-> "none",
              text |-> IF Has(contentList[1], "text")
                       THEN contentList[1].text ELSE ""]

\* Raw events the transport's streams deliver (the decoded JSON of a chunk).
RawEvents ==
    { [delta |-> [text |-> "Hel"]],
      [delta |-> [text |-> "lo"]],
      [type |-> "message_stop"],
      [type |-> "message_start"],
      [content |-> <<[text |-> "Hi"]>>],
      [content |-> <<>>] }

\* The full range of shapes of a raw event: with or without a type, with or
\* without a delta (with or without a text), without a content list, with an
\* empty one, or with one whose first element has or lacks a text.
EventTypes == {"absent", "content_block_delta", "message_delta", "message_stop"}
EventDeltas == { <<>>, <<[stop_reason |-> "end_turn"]>>,
                 <<[text |-> ""]>>, <<[text |-> "Hi"]>>, <<[text |-> "Hel"]>> }
EventContents == { <<>>, << <<>> >>, << <<[type |-> "tool_use"]>> >>,
                   << <<[text |-> "Hi"]>> >>,
                   << <<[text |-> "Hel"], [text |-> "lo"]>> >> }

\* The decoded JSON object with the given members; d and c are empty when
\* the member is absent and hold its value otherwise.
EventOf(t, d, c) ==
    (IF t = "absent" THEN <<>> ELSE [type |-> t])
    @@ (IF Len(d) = 0 THEN <<>> ELSE [delta |-> d[1]])
    @@ (IF Len(c) = 0 THEN <<>> ELSE [content |-> c[1]])

EventShapes ==
    { EventOf(t, d, c) : t \in EventTypes, d \in EventDeltas, c \in EventContents }

\* Response bodies invoke_model returns.
RawResponses ==
    { [content |-> <<[text |-> "Hello"]>>],
      [content |-> <<[type |-> "tool_use"]>>],
      [id |-> "msg"],
      [content |-> <<>>] }

\* User inputs of the chat loop, as character codes: "hi", "Exit".
UserInputs == { <<104,105>>, <<69,120,105,116>> }

\* should_exit(content): content.lower() == "exit"
should_exit(content) == Lower(content) = <<101,120,105,116>>

\* ---------------------------------------------------------- request body

\* An argument left at its default None.
NoArg == -1

\* Python's truth value of an Optional[int] / Optional[float] argument.
Falsy(x) == x = NoArg \/ x = 0

\* A formatting that lists the newest message first.
RECURSIVE formatted_messages_NewestFirst(_)
formatted_messages_NewestFirst(msgs) ==
    IF msgs = <<>> THEN <<>>
    ELSE IF Len(Head(msgs).content) > 0
    THEN formatted_messages_NewestFirst(Tail(msgs))
         \o << [role |-> Head(msgs).role,
                content |-> <<[type |-> "text", text |-> Head(msgs).content]>>] >>
    ELSE formatted_messages_NewestFirst(Tail(msgs))

\* `[... for msg in messages if msg.get("content")]`
RECURSIVE formatted_messages(_)
formatted_messages(msgs) ==
    IF msgs = <<>> THEN <<>>
    ELSE IF Len(Head(msgs).content) > 0
    THEN << [role |-> Head(msgs).role,
             content |-> <<[type |-> "text", text |-> Head(msgs).content]>>] >>
         \o formatted_messages(Tail(msgs))
    ELSE formatted_messages(Tail(msgs))

\* create_message: the request body built from its arguments.
RequestBody(msgs, system, max_tokens, temperature) ==
    [anthropic_version |-> "bedrock-2023-05-31",
     messages |-> formatted_messages(msgs),
     max_tokens |-> IF Falsy(max_tokens) THEN DefaultMaxTokens ELSE max_tokens,
     temperature |-> IF Falsy(temperature) THEN DefaultTemperature ELSE temperature]
    @@ (IF system # "" THEN [system |-> system] ELSE <<>>)

\* json.dumps(request_body): the members in insertion order.
Dumps(body) ==
    << <<"anthropic_version", body.anthropic_version>>,
       <<"messages", body.messages>>,
       <<"max_tokens", body.max_tokens>>,
       <<"temperature", body.temperature>> >>
    \o (IF Has(body, "system") THEN << <<"system", body.system>> >> ELSE <<>>)

\* The keyword arguments of invoke_model / invoke_model_with_response_stream.
InvokePayload(mid, body) ==
    [modelId |-> mid, contentType |-> "application/json",
     accept |-> "application/json", body |-> Dumps(body)]

\* An open that formats the caller's message list anew.
PayloadAtOpen_CurrentMessages(mid, body, caller_messages) ==
    InvokePayload(mid, [body EXCEPT !.messages = formatted_messages(caller_messages)])

\* _create_new_stream: what is sent for the iterator's model_id and
\* request_body while the caller's list is caller_messages.
PayloadAtOpen(mid, body, caller_messages) == InvokePayload(mid, body)

\* No request has been built.
NoRequest == [anthropic_version |-> ""]

\* main(): selected_model and system_prompt.
SelectedModel == "anthropic.claude-3-5-sonnet"
SystemPrompt == "You write in British English"

\* The request a direct caller builds its iterator or call with.
DirectRequest ==
    RequestBody(<<[role |-> "user", content |-> <<104,105>>]>>, "", NoArg, NoArg)

\* The message lists and arguments a caller gives create_message.
CallerMessages ==
    { <<[role |-> "user", content |-> <<104,105>>]>>,
      <<[role |-> "user", content |-> <<104,105>>],
        [role |-> "assistant", content |-> <<>>]>>,
      <<[role |-> "user", content |-> <<104,105>>],
        [role |-> "assistant", content |-> <<>>],
        [role |-> "user", content |-> <<121,111>>]>>,
      <<[role |-> "user", content |-> <<104,105>>],
        [role |-> "assistant", content |-> <<111,107>>],
        [role |-> "user", content |-> <<121,111>>]>> }
SystemArgs == {"", "Be brief"}
MaxTokensArgs == {NoArg, 1024}
TemperatureArgs == {NoArg, 0, 5}

\* ------------------------------------------------------------------ state

VARIABLES
    driver,            \* who runs: "main" (the chat loop), "iterator" (a caller
                       \* pulling a RetryingStreamIterator), "invoke" (a caller
                       \* of create_message(stream=False)), "twin" (a caller of
                       \* both, see twin)
    max_retries,       \* BedrockClient.max_retries / RetryingStreamIterator.max_retries
    base_delay,        \* BedrockClient.base_delay / RetryingStreamIterator.base_delay
    max_delay,         \* BedrockClient.max_delay / RetryingStreamIterator.max_delay
    model_id,          \* RetryingStreamIterator.model_id / create_message's model_id
    request_body,      \* RetryingStreamIterator.request_body / create_message's
                       \* local request_body
    main_pc,           \* position of main(): "off", "prompt", "streaming",
                       \* "crashed" (an exception left main), "exited",
                       \* "interrupted" (KeyboardInterrupt ended the process)
    messages,          \* main(): the message history
    complete_message,  \* main(): the response text accumulated in this turn
    turns,             \* user turns started
    it_pc,             \* "absent" (no iterator), "idle", "in_next" (inside __next__,
                       \* at the head of its while loop)
    attempt,           \* RetryingStreamIterator.attempt
    current_iterator,  \* "None", "live" (a generator over an open stream),
                       \* "finished" (a generator that returned or raised)
    current_stream,    \* RetryingStreamIterator.current_stream: "None" or "stream"
                       \* (the BedrockStreamWrapper of the stream opened last)
    ns_pc,             \* create_message(stream=False): "off", "running",
                       \* "returned", "raised"
    ns_attempt,        \* create_message: the local `attempt`
    ns_result,         \* create_message: what it returned or raised
    calls,             \* transport calls made for this invocation
                       \* (invoke_model or invoke_model_with_response_stream)
    payloads,          \* the distinct payloads sent with those calls
    transients,        \* how many times the transport signalled a transient
                       \* error to this invocation (at a call or in a stream)
    last_error,        \* the last exception the transport raised
    earlier,           \* the raw events read from the streams opened before the
                       \* latest one, in order
    current,           \* the raw events read from the latest stream opened (the
                       \* body returned, for invoke_model)
    stream_end,        \* how the latest call stands: "none" (no call yet),
                       \* "unopened" (the call raised), "live", "eos",
                       \* "transient" / "permanent" (the stream raised),
                       \* "interrupted" (the caller interrupted the call or read)
    events_read,       \* raw events the streams delivered in this run
    sleeps,            \* the backoff sleeps done, each the attempt its delay was
                       \* computed from
    delivered,         \* the chunks __next__ returned to its caller, in order
    last_pull,         \* the outcome of the last completed __next__
    pulls,             \* completed calls of __next__
    ends,              \* completed calls of __next__ that ended the sequence
                       \* (StopIteration or an exception)
    terminated,        \* a __next__ has raised an error to the caller
    cancelled,         \* a __next__ has let a KeyboardInterrupt through to the caller
    delays,            \* the backoff delays computed, each with the attempt and the
                       \* draw of random.uniform it was computed from
    peer               \* a second invocation made with the same client: its kind
                       \* ("none", "stream", "invoke"), its own attempt counter and
                       \* current_iterator, the transient failures and sleeps it
                       \* has had, the events it has read and its latest outcome
    ,
    twin               \* an iterator and a non-streaming call of one client that are
                       \* given the same outcome for each transport call and the
                       \* same draw of random.uniform: for each its attempt
                       \* counter, the calls and sleeps it has made, in order, and
                       \* how it stands
    ,
    session            \* what main() holds about web search: args.web_search,
                       \* whether PERPLEXITY_API_KEY is set in the environment,
                       \* its local web_search_enabled, and the calls made so far
                       \* of should_perform_web_search (decisions), of
                       \* perform_web_search (searches) and of the Perplexity
                       \* API (posts)

cfg_vars  == <<driver, max_retries, base_delay, max_delay>>
main_vars == <<main_pc, messages, complete_message, turns>>
it_vars   == <<it_pc, attempt, current_iterator, current_stream>>
ns_vars   == <<ns_pc, ns_attempt, ns_result>>
net_vars  == <<calls, payloads, transients, last_error, earlier, current, stream_end,
              events_read>>
req_vars  == <<model_id, request_body>>
pull_vars == <<delivered, last_pull, pulls, ends, terminated, cancelled>>
vars == <<cfg_vars, req_vars, main_vars, it_vars, ns_vars, net_vars, pull_vars, sleeps,
          delays, peer, twin, session>>

\* ------------------------------------------------------- transport record

\* What the transport signals with an error (spec 4.2): a transient error is one
\* whose message carries the signature ServiceUnavailableException in any case.
ServiceUnavailableSignature ==
    <<83,101,114,118,105,99,101,85,110,97,118,97,105,108,97,98,108,101,
      69,120,99,101,112,116,105,111,110>>

SameLetter(a, b) ==
    \/ a = b
    \/ a \in 65..90 /\ b = a + 32
    \/ b \in 65..90 /\ a = b + 32

CarriesSignature(text) ==
    \E i \in 0..(Len(text) - Len(ServiceUnavailableSignature)) :
        \A j \in 1..Len(ServiceUnavailableSignature) :
            SameLetter(text[i + j], ServiceUnavailableSignature[j])

Signals(e) == IF CarriesSignature(ErrorText(e)) THEN "transient" ELSE "permanent"

TransientCount(e) == IF Signals(e) = "transient" THEN 1 ELSE 0

\* The transport raises e at a call: no stream, no body.
CallRaises(e) ==
    /\ calls' = calls + 1
    /\ payloads' = payloads \cup {PayloadAtOpen(model_id, request_body, messages)}
    /\ transients' = transients + TransientCount(e)
    /\ last_error' = e
    /\ earlier' = earlier \o current
    /\ current' = <<>>
    /\ stream_end' = "unopened"
    /\ UNCHANGED events_read

\* The latest stream after what the transport does in one read of it, a new
\* stream being opened first when `opening`: it delivers the events `evs`
\* and then stands as `how`, having raised `errs`.
StreamDoes(opening, evs, how, errs) ==
    /\ calls' = IF opening THEN calls + 1 ELSE calls
    /\ payloads' = IF opening
                   THEN payloads \cup {PayloadAtOpen(model_id, request_body, messages)}
                   ELSE payloads
    /\ earlier' = IF opening THEN earlier \o current ELSE earlier
    /\ current' = (IF opening THEN <<>> ELSE current) \o evs
    /\ stream_end' = how
    /\ events_read' = events_read + Len(evs)
    /\ transients' = IF errs = <<>> THEN transients
                     ELSE transients + TransientCount(errs[1])
    /\ last_error' = IF errs = <<>> THEN last_error ELSE errs[1]

NotPulled == [kind |-> "not_pulled", type |-> "", text |-> "", err |-> "none"]
NoResult == [kind |-> "none", text |-> "", err |-> "none"]

\* There is no second invocation.
NoPeer == [mode |-> "none", attempt |-> 0, current_iterator |-> "None",
           transients |-> 0, sleeps |-> 0, reads |-> 0, outcome |-> "none"]

\* An invocation that has made no call yet: `self.attempt = 0` in __init__,
\* `attempt = 0` before the loop of create_message.
NotStarted == [attempt |-> 0, log |-> <<>>, outcome |-> "running"]

NoTwin == [stream |-> NotStarted, invoke |-> NotStarted]

\* check_web_search_availability(web_search_requested), with the environment
\* it reads: available only if requested and PERPLEXITY_API_KEY is set.
check_web_search_availability(web_search_requested, perplexity_api_key) ==
    IF ~web_search_requested THEN FALSE
    ELSE IF ~perplexity_api_key THEN FALSE
    ELSE TRUE

\* main(), the value of web_search_enabled when the chat loop starts: the one
\* assigned first is the result of check_web_search_availability, the one
\* assigned after the client is built is args.web_search.
web_search_enabled(args_web_search, perplexity_api_key) ==
    LET first == check_web_search_availability(args_web_search, perplexity_api_key)
        second == args_web_search
    IN  second

\* main() at the start of the chat loop, for a command line with or without
\* --web-search and an environment with or without PERPLEXITY_API_KEY.
StartOfMain(args_web_search, perplexity_api_key) ==
    [web_search |-> args_web_search,
     PERPLEXITY_API_KEY |-> perplexity_api_key,
     web_search_enabled |-> web_search_enabled(args_web_search, perplexity_api_key),
     decisions |-> 0, searches |-> 0, posts |-> 0]

Sessions == { StartOfMain(w, k) : w \in BOOLEAN, k \in BOOLEAN }

\* main() is not running.
NoSession == [web_search |-> FALSE, PERPLEXITY_API_KEY |-> FALSE,
              web_search_enabled |-> FALSE,
              decisions |-> 0, searches |-> 0, posts |-> 0]

\* ------------------------------------------------------------------- init

\* RetryingStreamIterator.__init__: attempt = 0, no stream, no iterator.
\* main() builds its client with max_retries=6; a direct caller may build a
\* client or an iterator with any max_retries (nothing validates it).
Init ==
    /\ driver \in {"main", "iterator", "invoke"}
    /\ max_retries \in (IF driver = "main" THEN {ClientMaxRetries}
                        ELSE (-1)..MaxRetries)
    /\ base_delay = ClientBaseDelay
    /\ max_delay = ClientMaxDelay
    /\ model_id = SelectedModel
    /\ request_body = (IF driver = "main" THEN NoRequest ELSE DirectRequest)
    /\ main_pc = (IF driver = "main" THEN "prompt" ELSE "off")
    /\ messages = <<>>
    /\ complete_message = ""
    /\ turns = 0
    /\ it_pc = (IF driver = "iterator" THEN "idle" ELSE "absent")
    /\ attempt = 0
    /\ current_iterator = "None"
    /\ current_stream = "None"
    /\ ns_pc = (IF driver = "invoke" THEN "running" ELSE "off")
    /\ ns_attempt = 0
    /\ ns_result = NoResult
    /\ calls = 0
    /\ payloads = {}
    /\ transients = 0
    /\ last_error = "none"
    /\ earlier = <<>>
    /\ current = <<>>
    /\ stream_end = "none"
    /\ events_read = 0
    /\ sleeps = <<>>
    /\ delivered = <<>>
    /\ last_pull = NotPulled
    /\ pulls = 0
    /\ ends = 0
    /\ terminated = FALSE
    /\ cancelled = FALSE
    /\ delays = <<>>
    /\ peer = NoPeer
    /\ twin = NoTwin
    /\ session \in (IF driver = "main" THEN Sessions ELSE {NoSession})

\* ------------------------------------------------- the chat loop's consumer

\* append_message(messages, role, content)
append_message(msgs, role, content) ==
    Append(msgs, [role |-> role, content |-> content])

\* A loop body that assigns the chunk's text instead of appending it.
Accumulate_Overwrites(text, chunk) ==
    IF chunk.type = "content_block_delta" /\ chunk.text # ""
    THEN chunk.text
    ELSE text

\* A loop body that appends the text of a chunk of any type.
Accumulate_AnyType(text, chunk) ==
    IF chunk.text # ""
    THEN text \o chunk.text
    ELSE text

\* main(), the body of `for chunk in stream` for one chunk: the text after it.
Accumulate(text, chunk) ==
    IF chunk.type = "content_block_delta" /\ chunk.text # ""
    THEN text \o chunk.text
    ELSE text

\* A loop that never breaks.
Breaks_Never(chunk) == FALSE

\* main(): the chunk ends the for loop (`break`).
Breaks(chunk) ==
    chunk.type # "content_block_delta" /\ chunk.type = "message_stop"

\* main(), what `for chunk in stream` does with the outcome of one __next__:
\* a chunk runs the loop body; StopIteration and `break` end the loop, after
\* which the accumulated text is appended to the history and saved; any
\* exception leaves main(), KeyboardInterrupt through its handler, which ends
\* the process; None has no attribute `type`.
Consume(result) ==
    IF driver # "main" THEN UNCHANGED main_vars
    ELSE IF result.kind = "chunk" /\ ~Breaks(result)
    THEN /\ complete_message' = Accumulate(complete_message, result)
         /\ UNCHANGED <<main_pc, messages, turns>>
    ELSE IF result.kind \in {"chunk", "StopIteration"}
    THEN /\ messages' = append_message(messages, "assistant", complete_message)
         /\ main_pc' = "prompt"
         /\ UNCHANGED <<complete_message, turns>>
    ELSE /\ main_pc' = (IF result.kind = "KeyboardInterrupt" THEN "interrupted"
                         ELSE "crashed")
         /\ UNCHANGED <<messages, complete_message, turns>>

\* ------------------------------------------------ RetryingStreamIterator

\* A loop that is not entered with the last attempt.
LoopGuard_Strict(a, m) == a < m

\* `while self.attempt <= self.max_retries`
LoopGuard(a, m) == a <= m

\* A retry test that allows one retry more than max_retries.
RetryAllowed_OneMore(a, m) == a <= m

\* `if self.attempt < self.max_retries`
RetryAllowed(a, m) == a < m

\* A reconnect that goes on waiting for the broken stream.
IteratorAfterRetry_Waits(gen) == "waiting"

\* A reconnect that keeps the broken generator.
IteratorAfterRetry_Kept(gen) == gen

\* `self.current_iterator = None  # Force creation of new stream`
IteratorAfterRetry(gen) == "None"

\* __next__ leaves with `result`: a chunk, StopIteration, an exception or None.
Leave(result) ==
    /\ it_pc' = "idle"
    /\ last_pull' = result
    /\ pulls' = pulls + 1
    /\ delivered' = IF result.kind = "chunk"
                    THEN Append(delivered, [type |-> result.type, text |-> result.text])
                    ELSE delivered
    /\ ends' = IF result.kind \in {"StopIteration", "raised", "MaxRetriesExceeded"}
               THEN ends + 1 ELSE ends
    /\ terminated' = (terminated \/ result.kind \in {"raised", "MaxRetriesExceeded"})
    /\ cancelled' = (cancelled \/ result.kind = "KeyboardInterrupt")
    /\ Consume(result)

\* An except clause that counts the attempt before it computes the delay.
StreamExcept_CountsFirst(e, gen) ==
    IF IsServiceUnavailable(e)
    THEN IF RetryAllowed(attempt, max_retries)
         THEN /\ sleeps' = Append(sleeps, attempt + 1)
              /\ attempt' = attempt + 1
              /\ current_iterator' = IteratorAfterRetry(gen)
              /\ UNCHANGED <<it_pc, pull_vars, main_vars>>
         ELSE /\ Leave([kind |-> "MaxRetriesExceeded", type |-> "", text |-> "", err |-> e,
                          msg |-> MaxRetriesExceededMessage(max_retries, e)])
              /\ current_iterator' = gen
              /\ UNCHANGED <<attempt, sleeps>>
    ELSE /\ Leave([kind |-> "raised", type |-> "", text |-> "", err |-> e])
         /\ current_iterator' = gen
         /\ UNCHANGED <<attempt, sleeps>>

\* The except clause of __next__ for exception e; gen is the generator the
\* failed statement left in self.current_iterator.
StreamExcept(e, gen) ==
    IF IsServiceUnavailable(e)
    THEN IF RetryAllowed(attempt, max_retries)
         THEN /\ sleeps' = Append(sleeps, attempt)
              /\ attempt' = attempt + 1
              /\ current_iterator' = IteratorAfterRetry(gen)
              /\ UNCHANGED <<it_pc, pull_vars, main_vars>>
         ELSE /\ Leave([kind |-> "MaxRetriesExceeded", type |-> "", text |-> "", err |-> e,
                          msg |-> MaxRetriesExceededMessage(max_retries, e)])
              /\ current_iterator' = gen
              /\ UNCHANGED <<attempt, sleeps>>
    ELSE /\ Leave([kind |-> "raised", type |-> "", text |-> "", err |-> e])
         /\ current_iterator' = gen
         /\ UNCHANGED <<attempt, sleeps>>

\* The caller pulls: next(stream).  The chat loop pulls while its for loop runs.
Pull ==
    /\ it_pc = "idle"
    /\ driver = "main" => main_pc = "streaming"
    /\ driver = "iterator" => pulls < MaxPulls
    /\ it_pc' = "in_next"
    /\ UNCHANGED <<cfg_vars, delays, req_vars, main_vars, attempt, current_iterator, ns_vars,
                   net_vars, pull_vars, sleeps>>
    /\ UNCHANGED current_stream
    /\ UNCHANGED <<peer, twin, session>>

\* The loop guard fails: __next__ falls off its loop and returns None.
NextReturnsNone ==
    /\ it_pc = "in_next"
    /\ ~LoopGuard(attempt, max_retries)
    /\ Leave([kind |-> "None", type |-> "", text |-> "", err |-> "none"])
    /\ UNCHANGED <<cfg_vars, delays, req_vars, attempt, current_iterator, ns_vars, net_vars, sleeps>>
    /\ UNCHANGED current_stream
    /\ UNCHANGED <<peer, twin, session>>

\* One pass of the loop: there is no iterator and
\* invoke_model_with_response_stream raises e.
OpenFails(e) ==
    /\ it_pc = "in_next"
    /\ LoopGuard(attempt, max_retries)
    /\ current_iterator = "None"
    /\ CallRaises(e)
    /\ StreamExcept(e, "None")
    /\ UNCHANGED <<cfg_vars, delays, req_vars, ns_vars>>
    /\ UNCHANGED current_stream
    /\ UNCHANGED <<peer, twin, session>>

\* A pass that takes a delivered chunk for a recovery and starts counting anew.
PullYields_ResetsOnSuccess(ev) ==
    /\ it_pc = "in_next"
    /\ LoopGuard(attempt, max_retries)
    /\ current_iterator \in {"None", "live"}
    /\ events_read < MaxEvents
    /\ StreamDoes(current_iterator = "None", <<ev>>, "live", <<>>)
    /\ LET w == BedrockChunkWrapper(ev)
       IN  IF w.raises = "none"
           THEN /\ Leave([kind |-> "chunk", type |-> w.type, text |-> w.delta.text,
                          err |-> "none"])
                /\ current_iterator' = "live"
                /\ attempt' = 0
                /\ UNCHANGED sleeps
           ELSE StreamExcept(w.raises, "finished")
    /\ UNCHANGED <<cfg_vars, delays, req_vars, ns_vars>>
    /\ current_stream' = (IF current_iterator = "None" THEN "stream" ELSE current_stream)
    /\ UNCHANGED <<peer, twin, session>>

\* One pass of the loop: (a stream is opened if there is none and) the stream
\* delivers the raw event ev, which the generator wraps and yields; a wrapper
\* that raises ends the generator and the exception reaches the except clause.
PullYields(ev) ==
    /\ it_pc = "in_next"
    /\ LoopGuard(attempt, max_retries)
    /\ current_iterator \in {"None", "live"}
    /\ events_read < MaxEvents
    /\ StreamDoes(current_iterator = "None", <<ev>>, "live", <<>>)
    /\ LET w == BedrockChunkWrapper(ev)
       IN  IF w.raises = "none"
           THEN /\ Leave([kind |-> "chunk", type |-> w.type, text |-> w.delta.text,
                          err |-> "none"])
                /\ current_iterator' = "live"
                /\ UNCHANGED <<attempt, sleeps>>
           ELSE StreamExcept(w.raises, "finished")
    /\ UNCHANGED <<cfg_vars, delays, req_vars, ns_vars>>
    /\ current_stream' = (IF current_iterator = "None" THEN "stream" ELSE current_stream)
    /\ UNCHANGED <<peer, twin, session>>

\* An end of stream after which the iterator holds no generator.
PullEnds_ForgetsStream ==
    /\ it_pc = "in_next"
    /\ LoopGuard(attempt, max_retries)
    /\ current_iterator \in {"None", "live"}
    /\ StreamDoes(current_iterator = "None", <<>>, "eos", <<>>)
    /\ current_iterator' = "None"
    /\ Leave([kind |-> "StopIteration", type |-> "", text |-> "", err |-> "none"])
    /\ UNCHANGED <<cfg_vars, delays, req_vars, attempt, ns_vars, sleeps>>
    /\ current_stream' = (IF current_iterator = "None" THEN "stream" ELSE current_stream)
    /\ UNCHANGED <<peer, twin, session>>

\* One pass of the loop: the stream is exhausted, the generator returns and
\* next() raises StopIteration, which __next__ re-raises.
PullEnds ==
    /\ it_pc = "in_next"
    /\ LoopGuard(attempt, max_retries)
    /\ current_iterator \in {"None", "live"}
    /\ StreamDoes(current_iterator = "None", <<>>, "eos", <<>>)
    /\ current_iterator' = "finished"
    /\ Leave([kind |-> "StopIteration", type |-> "", text |-> "", err |-> "none"])
    /\ UNCHANGED <<cfg_vars, delays, req_vars, attempt, ns_vars, sleeps>>
    /\ current_stream' = (IF current_iterator = "None" THEN "stream" ELSE current_stream)
    /\ UNCHANGED <<peer, twin, session>>

\* One pass of the loop on a generator that has returned or raised: next()
\* raises StopIteration without touching the transport.
PullFinished ==
    /\ it_pc = "in_next"
    /\ LoopGuard(attempt, max_retries)
    /\ current_iterator = "finished"
    /\ Leave([kind |-> "StopIteration", type |-> "", text |-> "", err |-> "none"])
    /\ UNCHANGED <<cfg_vars, delays, req_vars, attempt, current_iterator, ns_vars, net_vars, sleeps>>
    /\ UNCHANGED current_stream
    /\ UNCHANGED <<peer, twin, session>>

\* One pass of the loop: reading the stream raises e inside the generator.
PullFails(e) ==
    /\ it_pc = "in_next"
    /\ LoopGuard(attempt, max_retries)
    /\ current_iterator \in {"None", "live"}
    /\ StreamDoes(current_iterator = "None", <<>>, Signals(e), <<e>>)
    /\ StreamExcept(e, "finished")
    /\ UNCHANGED <<cfg_vars, delays, req_vars, ns_vars>>
    /\ current_stream' = (IF current_iterator = "None" THEN "stream" ELSE current_stream)
    /\ UNCHANGED <<peer, twin, session>>

\* ------------------------------------------------------------ the chat loop

\* main(), one pass of `while True` up to the for loop, for a plain text
\* input: exit on the exit word; otherwise, web_search_enabled being false,
\* the input is appended to the history, create_message(stream=True) builds a
\* new RetryingStreamIterator (no transport call) and the accumulated text
\* starts empty.
UserTurn(content) ==
    /\ driver = "main"
    /\ main_pc = "prompt"
    /\ turns < MaxTurns
    /\ IF should_exit(content)
       THEN /\ main_pc' = "exited"
            /\ UNCHANGED <<messages, complete_message, turns, it_vars, net_vars,
                           pull_vars, sleeps, req_vars>>
       ELSE /\ ~session.web_search_enabled
            /\ main_pc' = "streaming"
            /\ messages' = append_message(messages, "user", content)
            /\ request_body' = RequestBody(messages', SystemPrompt, ModelMaxTokens,
                                           ModelTemperature)
            /\ UNCHANGED model_id
            /\ complete_message' = ""
            /\ turns' = turns + 1
            /\ it_pc' = "idle"
            /\ attempt' = 0
            /\ current_iterator' = "None"
            /\ current_stream' = "None"
            /\ calls' = 0
            /\ payloads' = {}
            /\ transients' = 0
            /\ last_error' = "none"
            /\ earlier' = <<>>
            /\ current' = <<>>
            /\ stream_end' = "none"
            /\ sleeps' = <<>>
            /\ delivered' = <<>>
            /\ last_pull' = NotPulled
            /\ pulls' = 0
            /\ ends' = 0
            /\ terminated' = FALSE
            /\ cancelled' = FALSE
            /\ UNCHANGED events_read
    /\ UNCHANGED <<cfg_vars, delays, ns_vars>>
    /\ UNCHANGED <<peer, twin, session>>

\* ------------------------------------- create_message(stream=False)

\* create_message leaves its retry loop with `result`.
InvokeLeave(pc, result) ==
    /\ ns_pc' = pc
    /\ ns_result' = result

\* An except clause that retries without counting the attempt.
InvokeExcept_NoIncrement(e) ==
    IF IsServiceUnavailable(e)
    THEN IF RetryAllowed(ns_attempt, max_retries)
         THEN /\ sleeps' = Append(sleeps, ns_attempt)
              /\ UNCHANGED <<ns_attempt, ns_pc, ns_result>>
         ELSE /\ InvokeLeave("raised", [kind |-> "MaxRetriesExceeded", text |-> "", err |-> e,
                                       msg |-> MaxRetriesExceededMessage(max_retries, e)])
              /\ UNCHANGED <<ns_attempt, sleeps>>
    ELSE /\ InvokeLeave("raised", [kind |-> "raised", text |-> "", err |-> e])
         /\ UNCHANGED <<ns_attempt, sleeps>>

\* The except clause of the non-streaming loop for exception e.
InvokeExcept(e) ==
    IF IsServiceUnavailable(e)
    THEN IF RetryAllowed(ns_attempt, max_retries)
         THEN /\ sleeps' = Append(sleeps, ns_attempt)
              /\ ns_attempt' = ns_attempt + 1
              /\ UNCHANGED <<ns_pc, ns_result>>
         ELSE /\ InvokeLeave("raised", [kind |-> "MaxRetriesExceeded", text |-> "", err |-> e,
                                       msg |-> MaxRetriesExceededMessage(max_retries, e)])
              /\ UNCHANGED <<ns_attempt, sleeps>>
    ELSE /\ InvokeLeave("raised", [kind |-> "raised", text |-> "", err |-> e])
         /\ UNCHANGED <<ns_attempt, sleeps>>

\* One pass of the loop: invoke_model returns `body`, which is wrapped and
\* returned; a wrapper that raises does so inside the try block.
InvokeReturns(body) ==
    /\ ns_pc = "running"
    /\ LoopGuard(ns_attempt, max_retries)
    /\ StreamDoes(TRUE, <<body>>, "eos", <<>>)
    /\ LET w == BedrockResponseWrapper(body)
       IN  IF w.raises = "none"
           THEN /\ InvokeLeave("returned", [kind |-> "response", text |-> w.text,
                                            err |-> "none"])
                /\ UNCHANGED <<ns_attempt, sleeps>>
           ELSE InvokeExcept(w.raises)
    /\ UNCHANGED <<cfg_vars, delays, req_vars, main_vars, it_vars, pull_vars>>
    /\ UNCHANGED <<peer, twin, session>>

\* One pass of the loop: invoke_model raises e.
InvokeFails(e) ==
    /\ ns_pc = "running"
    /\ LoopGuard(ns_attempt, max_retries)
    /\ CallRaises(e)
    /\ InvokeExcept(e)
    /\ UNCHANGED <<cfg_vars, delays, req_vars, main_vars, it_vars, pull_vars>>
    /\ UNCHANGED <<peer, twin, session>>

\* The loop guard fails: `return None`.
InvokeReturnsNone ==
    /\ ns_pc = "running"
    /\ ~LoopGuard(ns_attempt, max_retries)
    /\ InvokeLeave("returned", [kind |-> "None", text |-> "", err |-> "none"])
    /\ UNCHANGED <<cfg_vars, delays, req_vars, main_vars, it_vars, ns_attempt, net_vars, pull_vars, sleeps>>
    /\ UNCHANGED <<peer, twin, session>>

\* ---------------------------------------------------------- specification

Next ==
    \/ \E content \in UserInputs : UserTurn(content)
    \/ Pull
    \/ NextReturnsNone
    \/ \E e \in TransportErrors : OpenFails(e)
    \/ \E ev \in RawEvents : PullYields(ev)
    \/ PullEnds
    \/ PullFinished
    \/ \E e \in TransportErrors : PullFails(e)
    \/ \E body \in RawResponses : InvokeReturns(body)
    \/ \E e \in TransportErrors : InvokeFails(e)
    \/ InvokeReturnsNone

Spec == Init /\ [][Next]_vars

\* ------------------------------------------------- the backoff on its own

\* A client or an iterator built with any retry configuration, about to retry.
DelayInit ==
    /\ driver \in {"iterator", "invoke"}
    /\ max_retries \in 0..MaxRetries
    /\ base_delay \in BaseDelays
    /\ max_delay \in MaxDelays
    /\ model_id = SelectedModel
    /\ request_body = DirectRequest
    /\ main_pc = "off"
    /\ messages = <<>>
    /\ complete_message = ""
    /\ turns = 0
    /\ it_pc = (IF driver = "iterator" THEN "in_next" ELSE "absent")
    /\ attempt = 0
    /\ current_iterator = "None"
    /\ current_stream = "None"
    /\ ns_pc = (IF driver = "invoke" THEN "running" ELSE "off")
    /\ ns_attempt = 0
    /\ ns_result = NoResult
    /\ calls = 0
    /\ payloads = {}
    /\ transients = 0
    /\ last_error = "none"
    /\ earlier = <<>>
    /\ current = <<>>
    /\ stream_end = "none"
    /\ events_read = 0
    /\ sleeps = <<>>
    /\ delivered = <<>>
    /\ last_pull = NotPulled
    /\ pulls = 0
    /\ ends = 0
    /\ terminated = FALSE
    /\ cancelled = FALSE
    /\ delays = <<>>
    /\ peer = NoPeer
    /\ twin = NoTwin
    /\ session = NoSession

\* __next__, the retry branch of its except clause: delay = self._calculate_delay(),
\* time.sleep(delay), self.attempt += 1; k is the draw of random.uniform.
StreamBackoff(k) ==
    /\ driver = "iterator"
    /\ RetryAllowed(attempt, max_retries)
    /\ delays' = Append(delays,
                        [attempt |-> attempt, draw |-> k,
                         delay |-> calculate_delay(base_delay, max_delay, attempt, k)])
    /\ sleeps' = Append(sleeps, attempt)
    /\ attempt' = attempt + 1
    /\ UNCHANGED <<cfg_vars, req_vars, main_vars, it_pc, current_iterator, ns_vars,
                   net_vars, pull_vars>>
    /\ UNCHANGED current_stream
    /\ UNCHANGED <<peer, twin, session>>

\* create_message, the retry branch of its except clause: the delay computed
\* inline, time.sleep(total_delay), attempt += 1.
InvokeBackoff(k) ==
    /\ driver = "invoke"
    /\ RetryAllowed(ns_attempt, max_retries)
    /\ delays' = Append(delays,
                        [attempt |-> ns_attempt, draw |-> k,
                         delay |-> total_delay(base_delay, max_delay, ns_attempt, k)])
    /\ sleeps' = Append(sleeps, ns_attempt)
    /\ ns_attempt' = ns_attempt + 1
    /\ UNCHANGED <<cfg_vars, req_vars, main_vars, it_vars, ns_pc, ns_result, net_vars,
                   pull_vars>>
    /\ UNCHANGED <<peer, twin, session>>

DelayNext ==
    \/ \E k \in 0..JitterSteps : StreamBackoff(k)
    \/ \E k \in 0..JitterSteps : InvokeBackoff(k)

DelaySpec == DelayInit /\ [][DelayNext]_vars

\* ------------------------------------------- the chunk wrapper on its own

\* One iterator that does not retry, over a stream of events of any shape.
ChunkInit ==
    /\ Init
    /\ driver = "iterator"
    /\ max_retries = 0

\* One pass of the loop of __next__ on an event of any shape.
ReadShape(ev) ==
    /\ events_read < MaxShapesRead
    /\ PullYields(ev)

ChunkNext ==
    \/ Pull
    \/ \E ev \in EventShapes : ReadShape(ev)
    \/ PullEnds
    \/ PullFinished

ChunkSpec == ChunkInit /\ [][ChunkNext]_vars

\* ------------------------------- create_message(stream=True) and its caller

\* A caller that holds a message list and a client, before create_message.
RequestInit ==
    /\ driver = "iterator"
    /\ max_retries \in 0..MaxRetries
    /\ base_delay = ClientBaseDelay
    /\ max_delay = ClientMaxDelay
    /\ model_id = SelectedModel
    /\ request_body = NoRequest
    /\ main_pc = "off"
    /\ messages \in CallerMessages
    /\ complete_message = ""
    /\ turns = 0
    /\ it_pc = "absent"
    /\ attempt = 0
    /\ current_iterator = "None"
    /\ current_stream = "None"
    /\ ns_pc = "off"
    /\ ns_attempt = 0
    /\ ns_result = NoResult
    /\ calls = 0
    /\ payloads = {}
    /\ transients = 0
    /\ last_error = "none"
    /\ earlier = <<>>
    /\ current = <<>>
    /\ stream_end = "none"
    /\ events_read = 0
    /\ sleeps = <<>>
    /\ delivered = <<>>
    /\ last_pull = NotPulled
    /\ pulls = 0
    /\ ends = 0
    /\ terminated = FALSE
    /\ cancelled = FALSE
    /\ delays = <<>>
    /\ peer = NoPeer
    /\ twin = NoTwin
    /\ session = NoSession

\* create_message(model_id, messages, system, max_tokens, temperature,
\* stream=True): the request body is built and a RetryingStreamIterator
\* holding it is returned; the transport is not called.
CreateMessage(system, max_tokens, temperature) ==
    /\ it_pc = "absent"
    /\ request_body' = RequestBody(messages, system, max_tokens, temperature)
    /\ it_pc' = "idle"
    /\ attempt' = 0
    /\ current_iterator' = "None"
    /\ current_stream' = "None"
    /\ UNCHANGED <<cfg_vars, model_id, main_vars, ns_vars, net_vars, pull_vars, sleeps,
                   delays>>
    /\ UNCHANGED <<peer, twin, session>>

\* The caller appends to its own message list (append_message), between two
\* pulls.
CallerAppends(role, content) ==
    /\ it_pc = "idle"
    /\ Len(messages) < MaxMessages
    /\ messages' = append_message(messages, role, content)
    /\ UNCHANGED <<cfg_vars, req_vars, main_pc, complete_message, turns, it_vars,
                   ns_vars, net_vars, pull_vars, sleeps, delays>>
    /\ UNCHANGED <<peer, twin, session>>

\* One pass of the loop of __next__ that reads an event.
ReadEvent(ev) ==
    /\ events_read < MaxShapesRead
    /\ PullYields(ev)

RequestNext ==
    \/ \E system \in SystemArgs, max_tokens \in MaxTokensArgs,
          temperature \in TemperatureArgs :
              CreateMessage(system, max_tokens, temperature)
    \/ CallerAppends("user", <<104,105>>)
    \/ Pull
    \/ \E e \in {"su_client", "access_denied"} : OpenFails(e)
    \/ ReadEvent([delta |-> [text |-> "Hel"]])
    \/ PullEnds
    \/ PullFinished
    \/ \E e \in {"su_client", "access_denied"} : PullFails(e)

RequestSpec == RequestInit /\ [][RequestNext]_vars

\* ------------------------------------------- an iterator and Ctrl+C

\* KeyboardInterrupt is no Exception: neither except clause of __next__
\* catches it, so it leaves __next__ from wherever it is raised.
Interrupted == [kind |-> "KeyboardInterrupt", type |-> "", text |-> "", err |-> "none"]

CancelInit ==
    /\ Init
    /\ driver = "iterator"
    /\ max_retries >= 0

\* The interrupt arrives inside invoke_model_with_response_stream: the call
\* was made, no stream is assigned.
InterruptOpen ==
    /\ it_pc = "in_next"
    /\ LoopGuard(attempt, max_retries)
    /\ current_iterator = "None"
    /\ calls' = calls + 1
    /\ payloads' = payloads \cup {PayloadAtOpen(model_id, request_body, messages)}
    /\ earlier' = earlier \o current
    /\ current' = <<>>
    /\ stream_end' = "interrupted"
    /\ Leave(Interrupted)
    /\ UNCHANGED <<cfg_vars, req_vars, attempt, current_iterator, current_stream, ns_vars,
                   transients, last_error, events_read, sleeps, delays>>
    /\ UNCHANGED <<peer, twin, session>>

\* The interrupt arrives inside next(self.current_iterator), while the
\* generator waits for an event of the (if need be newly opened) stream: the
\* generator is finished by the exception that passes through it.
InterruptRead ==
    /\ it_pc = "in_next"
    /\ LoopGuard(attempt, max_retries)
    /\ current_iterator \in {"None", "live"}
    /\ StreamDoes(current_iterator = "None", <<>>, "interrupted", <<>>)
    /\ current_iterator' = "finished"
    /\ current_stream' = (IF current_iterator = "None" THEN "stream" ELSE current_stream)
    /\ Leave(Interrupted)
    /\ UNCHANGED <<cfg_vars, req_vars, attempt, ns_vars, sleeps, delays>>
    /\ UNCHANGED <<peer, twin, session>>

\* The except clause of __next__ for a transient e that may be retried, with
\* the interrupt arriving inside time.sleep(delay): the statements after the
\* sleep (attempt += 1, current_iterator = None) are not run.
SleepInterrupted(e, gen) ==
    /\ IsServiceUnavailable(e)
    /\ RetryAllowed(attempt, max_retries)
    /\ Leave(Interrupted)
    /\ current_iterator' = gen
    /\ UNCHANGED <<attempt, sleeps>>

\* The open raises e and the backoff sleep is interrupted.
InterruptSleepAfterOpen(e) ==
    /\ it_pc = "in_next"
    /\ LoopGuard(attempt, max_retries)
    /\ current_iterator = "None"
    /\ CallRaises(e)
    /\ SleepInterrupted(e, "None")
    /\ UNCHANGED <<cfg_vars, req_vars, current_stream, ns_vars, delays>>
    /\ UNCHANGED <<peer, twin, session>>

\* Reading the stream raises e and the backoff sleep is interrupted.
InterruptSleepAfterRead(e) ==
    /\ it_pc = "in_next"
    /\ LoopGuard(attempt, max_retries)
    /\ current_iterator \in {"None", "live"}
    /\ StreamDoes(current_iterator = "None", <<>>, Signals(e), <<e>>)
    /\ SleepInterrupted(e, "finished")
    /\ current_stream' = (IF current_iterator = "None" THEN "stream" ELSE current_stream)
    /\ UNCHANGED <<cfg_vars, req_vars, ns_vars, delays>>
    /\ UNCHANGED <<peer, twin, session>>

CancelNext ==
    \/ Pull
    \/ \E e \in {"su_client", "access_denied"} : OpenFails(e)
    \/ ReadEvent([delta |-> [text |-> "Hel"]])
    \/ PullEnds
    \/ PullFinished
    \/ \E e \in {"su_client", "access_denied"} : PullFails(e)
    \/ InterruptOpen
    \/ InterruptRead
    \/ InterruptSleepAfterOpen("su_client")
    \/ InterruptSleepAfterRead("su_client")

CancelSpec == CancelInit /\ [][CancelNext]_vars

\* ----------------------------------- two invocations of the same client

\* An iterator, and a client (of the same max_retries) to make a second
\* invocation with.
PairInit ==
    /\ Init
    /\ driver = "iterator"
    /\ max_retries >= 0

\* create_message is called a second time: with stream=True it returns a new
\* RetryingStreamIterator (attempt = 0, no stream), with stream=False it
\* enters its loop with a local attempt = 0.
CreatePeer(mode) ==
    /\ peer.mode = "none"
    /\ peer' = [NoPeer EXCEPT !.mode = mode]
    /\ UNCHANGED <<cfg_vars, req_vars, main_vars, it_vars, ns_vars, net_vars, pull_vars,
                   sleeps, delays, twin, session>>

\* An except clause that counts the retry on the other iterator's counter too.
PeerExcept_SharedCounter(e, gen) ==
    IF IsServiceUnavailable(e)
    THEN IF RetryAllowed(peer.attempt, max_retries)
         THEN /\ peer' = [peer EXCEPT !.attempt = @ + 1, !.sleeps = @ + 1,
                                      !.transients = @ + 1,
                                      !.current_iterator = IteratorAfterRetry(gen)]
              /\ attempt' = attempt + 1
              /\ UNCHANGED <<it_pc, current_iterator, current_stream>>
         ELSE /\ peer' = [peer EXCEPT !.transients = @ + 1, !.current_iterator = gen,
                                      !.outcome = "MaxRetriesExceeded"]
              /\ UNCHANGED it_vars
    ELSE /\ peer' = [peer EXCEPT !.current_iterator = gen, !.outcome = "raised"]
         /\ UNCHANGED it_vars

\* The except clause of the second invocation (of its __next__, or of its
\* non-streaming loop) for exception e: it works on that invocation's own
\* attempt and current_iterator.
PeerExcept(e, gen) ==
    IF IsServiceUnavailable(e)
    THEN IF RetryAllowed(peer.attempt, max_retries)
         THEN /\ peer' = [peer EXCEPT !.attempt = @ + 1, !.sleeps = @ + 1,
                                      !.transients = @ + 1,
                                      !.current_iterator = IteratorAfterRetry(gen)]
              /\ UNCHANGED it_vars
         ELSE /\ peer' = [peer EXCEPT !.transients = @ + 1, !.current_iterator = gen,
                                      !.outcome = "MaxRetriesExceeded"]
              /\ UNCHANGED it_vars
    ELSE /\ peer' = [peer EXCEPT !.current_iterator = gen, !.outcome = "raised"]
         /\ UNCHANGED it_vars

\* The second invocation is running a pass of its loop; its caller leaves it
\* alone after its first terminal outcome.
PeerRuns(mode) ==
    /\ peer.mode = mode
    /\ LoopGuard(peer.attempt, max_retries)
    /\ peer.outcome \in {"none", "chunk"}

\* A pass of the second iterator's __next__ in which the open raises e, or a
\* pass of the second call's loop in which invoke_model raises e.
PeerCallFails(mode, e) ==
    /\ PeerRuns(mode)
    /\ peer.current_iterator = "None"
    /\ PeerExcept(e, "None")
    /\ UNCHANGED <<cfg_vars, req_vars, main_vars, ns_vars, net_vars, pull_vars, sleeps,
                   delays, twin, session>>

\* A pass of the second iterator's __next__ that reads the event ev.
PeerYields(ev) ==
    /\ PeerRuns("stream")
    /\ peer.current_iterator \in {"None", "live"}
    /\ peer.reads < MaxPeerReads
    /\ LET w == BedrockChunkWrapper(ev)
       IN  IF w.raises = "none"
           THEN /\ peer' = [peer EXCEPT !.reads = @ + 1, !.current_iterator = "live",
                                        !.outcome = "chunk"]
                /\ UNCHANGED it_vars
           ELSE PeerExcept(w.raises, "finished")
    /\ UNCHANGED <<cfg_vars, req_vars, main_vars, ns_vars, net_vars, pull_vars, sleeps,
                   delays, twin, session>>

\* A pass of the second iterator's __next__ in which reading the stream raises e.
PeerStreamFails(e) ==
    /\ PeerRuns("stream")
    /\ peer.current_iterator \in {"None", "live"}
    /\ PeerExcept(e, "finished")
    /\ UNCHANGED <<cfg_vars, req_vars, main_vars, ns_vars, net_vars, pull_vars, sleeps,
                   delays, twin, session>>

\* The second iterator's stream ends.
PeerEnds ==
    /\ PeerRuns("stream")
    /\ peer.current_iterator \in {"None", "live"}
    /\ peer' = [peer EXCEPT !.current_iterator = "finished", !.outcome = "StopIteration"]
    /\ UNCHANGED <<cfg_vars, req_vars, main_vars, it_vars, ns_vars, net_vars, pull_vars,
                   sleeps, delays, twin, session>>

\* The second, non-streaming call gets its response.
PeerInvokeReturns ==
    /\ PeerRuns("invoke")
    /\ peer' = [peer EXCEPT !.outcome = "response"]
    /\ UNCHANGED <<cfg_vars, req_vars, main_vars, it_vars, ns_vars, net_vars, pull_vars,
                   sleeps, delays, twin, session>>

PairNext ==
    \/ Pull
    \/ \E e \in {"su_client", "access_denied"} : OpenFails(e)
    \/ ReadEvent([delta |-> [text |-> "Hel"]])
    \/ PullEnds
    \/ PullFinished
    \/ \E e \in {"su_client", "access_denied"} : PullFails(e)
    \/ \E mode \in {"stream", "invoke"} : CreatePeer(mode)
    \/ \E mode \in {"stream", "invoke"}, e \in {"su_upper", "malformed"} :
          PeerCallFails(mode, e)
    \/ PeerYields([delta |-> [text |-> "lo"]])
    \/ PeerStreamFails("su_upper")
    \/ PeerEnds
    \/ PeerInvokeReturns

PairSpec == PairInit /\ [][PairNext]_vars

\* ------------------------------- an invocation run to its first outcome

\* A client with max_retries >= 0 and either an iterator of it, about to be
\* consumed, or a non-streaming call of it in its loop.
LiveInit ==
    /\ Init
    /\ driver \in {"iterator", "invoke"}
    /\ max_retries >= 0

\* `for chunk in stream` / repeated next(stream): the consumer pulls again as
\* long as no pull has ended the sequence or raised.
ConsumerPulls ==
    /\ driver = "iterator"
    /\ it_pc = "idle"
    /\ ends = 0
    /\ it_pc' = "in_next"
    /\ UNCHANGED <<cfg_vars, delays, req_vars, main_vars, attempt, current_iterator,
                   current_stream, ns_vars, net_vars, pull_vars, sleeps, peer, twin, session>>

\* The events the streams of such a run deliver and the errors its transport
\* raises: a delta, a stop, an event no chunk can be built from; a transient
\* and a permanent error.
LiveEvents == { [delta |-> [text |-> "Hel"]], [type |-> "message_stop"],
                [content |-> <<>>] }
LiveErrors == {"su_client", "access_denied"}

LiveNext ==
    \/ ConsumerPulls
    \/ \E e \in LiveErrors : OpenFails(e)
    \/ \E ev \in LiveEvents : PullYields(ev)
    \/ PullEnds
    \/ \E e \in LiveErrors : PullFails(e)
    \/ \E body \in RawResponses : InvokeReturns(body)
    \/ \E e \in LiveErrors : InvokeFails(e)

\* Every transport call, every read of a stream and every sleep returns, every
\* stream is finite, and the consumer keeps pulling: a step that can be taken
\* is taken.
LiveSpec == LiveInit /\ [][LiveNext]_vars /\ WF_vars(LiveNext)

\* ------------------------------------- the chat loop and its inputs

\* What the user submits, other than plain text, and what the program finds:
\* "Upload: <path>" of a readable file, of a file of more than 64000 tokens,
\* of an empty file, of a file that cannot be read, of a directory, of a
\* directory of more than 100000 tokens; and, in a session with web search,
\* a text for which the model asks for no search, for a search that returns
\* results, for a search that fails, or for which the deciding call raises.
InputKinds ==
    { "file", "file_too_big", "file_empty", "file_unreadable",
      "directory", "directory_too_big",
      "search_not_needed", "search_found", "search_failed", "search_decision_raises" }

\* The texts main() builds (stand-ins of the same emptiness): the request to
\* analyse a file "f", a directory "d", the text read_file_contents returns
\* on an error "e", a query "q", the search results "r", the request to use
\* them "u".
FileAnalysisRequest == <<102>>
DirAnalysisRequest == <<100>>
UploadFailedRequest == <<101>>
Query == <<113>>
WebSearchResults == <<114>>
WebSearchAnalysisRequest == <<117>>

\* main(), one pass of `while True` from the prompt to `supports_streaming`:
\* the history after the input, and whether the pass goes on to
\* create_message ("invoke"), goes back to the prompt ("continue") or is left
\* by an exception ("raise").
after_input(msgs, kind) ==
    CASE kind = "file" ->
           [messages |-> append_message(msgs, "user", FileAnalysisRequest),
            then |-> "invoke"]
      [] kind = "file_too_big" ->
           \* a notice is printed, nothing is appended, no `continue`
           [messages |-> msgs, then |-> "invoke"]
      [] kind = "file_empty" ->
           [messages |-> msgs, then |-> "continue"]
      [] kind = "file_unreadable" ->
           [messages |-> append_message(msgs, "user", UploadFailedRequest),
            then |-> "invoke"]
      [] kind \in {"directory", "directory_too_big"} ->
           \* "DIRECTORY TOO BIG." is a non-empty markdown_content
           [messages |-> append_message(msgs, "user", DirAnalysisRequest),
            then |-> "invoke"]
      [] kind \in {"search_not_needed", "search_failed"} ->
           [messages |-> append_message(msgs, "user", Query), then |-> "invoke"]
      [] kind = "search_found" ->
           [messages |->
                append_message(
                    append_message(append_message(msgs, "user", Query),
                                   "assistant", WebSearchResults),
                    "user", WebSearchAnalysisRequest),
            then |-> "invoke"]
      [] kind = "search_decision_raises" ->
           [messages |-> append_message(msgs, "user", Query), then |-> "raise"]

SearchKinds ==
    {"search_not_needed", "search_found", "search_failed", "search_decision_raises"}

\* main(), `if web_search_enabled:` for a plain text input: the input takes
\* this branch only if web_search_enabled is true, and perform_web_search
\* returns results only if PERPLEXITY_API_KEY is set.
input_possible(sess, kind) ==
    /\ kind \in SearchKinds => sess.web_search_enabled
    /\ kind = "search_found" => sess.PERPLEXITY_API_KEY

\* The calls that branch makes: should_perform_web_search always; if it
\* answers YES, perform_web_search, which raises ValueError before it posts
\* anything if PERPLEXITY_API_KEY is not set.
after_search(sess, kind) ==
    IF kind \notin SearchKinds THEN sess
    ELSE [sess EXCEPT
            !.decisions = @ + 1,
            !.searches = IF kind \in {"search_found", "search_failed"} THEN @ + 1 ELSE @,
            !.posts = IF kind \in {"search_found", "search_failed"}
                         /\ sess.PERPLEXITY_API_KEY
                      THEN @ + 1 ELSE @]

\* One pass of `while True` for such an input, up to the for loop:
\* create_message(stream=True) builds a new RetryingStreamIterator from the
\* history as it stands.
InputTurn(kind) ==
    /\ driver = "main"
    /\ main_pc = "prompt"
    /\ turns < MaxTurns
    /\ input_possible(session, kind)
    /\ session' = after_search(session, kind)
    /\ LET after == after_input(messages, kind)
       IN  /\ messages' = after.messages
           /\ turns' = turns + 1
           /\ IF after.then = "invoke"
              THEN /\ main_pc' = "streaming"
                   /\ request_body' = RequestBody(after.messages, SystemPrompt,
                                                  ModelMaxTokens, ModelTemperature)
                   /\ UNCHANGED model_id
                   /\ complete_message' = ""
                   /\ it_pc' = "idle"
                   /\ attempt' = 0
                   /\ current_iterator' = "None"
                   /\ current_stream' = "None"
                   /\ calls' = 0
                   /\ payloads' = {}
                   /\ transients' = 0
                   /\ last_error' = "none"
                   /\ earlier' = <<>>
                   /\ current' = <<>>
                   /\ stream_end' = "none"
                   /\ sleeps' = <<>>
                   /\ delivered' = <<>>
                   /\ last_pull' = NotPulled
                   /\ pulls' = 0
                   /\ ends' = 0
                   /\ terminated' = FALSE
                   /\ cancelled' = FALSE
                   /\ UNCHANGED events_read
              ELSE /\ main_pc' = (IF after.then = "raise" THEN "crashed" ELSE "prompt")
                   /\ UNCHANGED <<complete_message, it_vars, net_vars, pull_vars, sleeps,
                                  req_vars>>
    /\ UNCHANGED <<cfg_vars, delays, ns_vars>>
    /\ UNCHANGED <<peer, twin>>

\* The chat loop of main(), started with an empty history.
ChatInit ==
    /\ Init
    /\ driver = "main"

\* The events the streams of the chat loop deliver: those of LiveEvents and an
\* event of another type that carries a text.
ChatEvents == LiveEvents \cup { [type |-> "message_delta", delta |-> [text |-> "lo"]] }

ChatNext ==
    \/ \E content \in UserInputs : UserTurn(content)
    \/ \E kind \in InputKinds : InputTurn(kind)
    \/ Pull
    \/ \E e \in LiveErrors : OpenFails(e)
    \/ \E ev \in ChatEvents : PullYields(ev)
    \/ PullEnds
    \/ \E e \in LiveErrors : PullFails(e)

ChatSpec == ChatInit /\ [][ChatNext]_vars

\* ------------------------- the two retry loops given the same outcomes

\* What the transport does at one call: it returns (a stream that opens and
\* delivers, a response body) or raises an error.
TwinOutcomes == {"success", "su_client", "su_upper", "access_denied"}

Logged(run, op, delay) == Append(run.log, [op |-> op, delay |-> delay])

\* f"{delay:.2f}": the delay in hundredths of a second, rounded to the nearest.
FormatDelay(d) == (d + 5) \div 10

\* A notice that numbers the retries from 0.
Reported_FromZero(run, delay) ==
    Append(run.log, [op |-> "report", delay |-> FormatDelay(delay),
                     number |-> run.attempt, of |-> max_retries])

\* print(f"\nService unavailable. Retrying ... in {delay:.2f} seconds
\* (attempt {attempt + 1}/{self.max_retries})...")
Reported(run, delay) ==
    Append(run.log, [op |-> "report", delay |-> FormatDelay(delay),
                     number |-> run.attempt + 1, of |-> max_retries])

\* __next__ with no stream open, one pass of its loop in which the open has
\* the outcome o and random.uniform draws k; falling off the loop returns None.
stream_pass(run, o, k) ==
    IF ~LoopGuard(run.attempt, max_retries)
    THEN [run EXCEPT !.outcome = "None"]
    ELSE LET called == [run EXCEPT !.log = Logged(run, "call", 0)]
         IN  IF o = "success"
             THEN [called EXCEPT !.outcome = "success"]
             ELSE IF IsServiceUnavailable(o)
             THEN IF RetryAllowed(run.attempt, max_retries)
                  THEN LET delay == calculate_delay(base_delay, max_delay,
                                                    run.attempt, k)
                           told == [called EXCEPT !.log = Reported(called, delay)]
                       IN  [told EXCEPT !.log = Logged(told, "sleep", delay),
                                        !.attempt = run.attempt + 1]
                  ELSE [called EXCEPT !.outcome = "MaxRetriesExceeded"]
             ELSE [called EXCEPT !.outcome = "permanent"]

\* create_message(stream=False), one pass of its loop in which invoke_model
\* has the outcome o and random.uniform draws k; falling off the loop returns
\* None.
invoke_pass(run, o, k) ==
    IF ~LoopGuard(run.attempt, max_retries)
    THEN [run EXCEPT !.outcome = "None"]
    ELSE LET called == [run EXCEPT !.log = Logged(run, "call", 0)]
         IN  IF o = "success"
             THEN [called EXCEPT !.outcome = "success"]
             ELSE IF IsServiceUnavailable(o)
             THEN IF RetryAllowed(run.attempt, max_retries)
                  THEN LET delay == total_delay(base_delay, max_delay,
                                                run.attempt, k)
                           told == [called EXCEPT !.log = Reported(called, delay)]
                       IN  [told EXCEPT !.log = Logged(told, "sleep", delay),
                                        !.attempt = run.attempt + 1]
                  ELSE [called EXCEPT !.outcome = "MaxRetriesExceeded"]
             ELSE [called EXCEPT !.outcome = "permanent"]

\* A client of any retry configuration, an iterator of it that is being
\* pulled for the first time and a non-streaming call of it.
TwinInit ==
    /\ driver = "twin"
    /\ max_retries \in (-1)..MaxRetries
    /\ base_delay \in BaseDelays
    /\ max_delay \in MaxDelays
    /\ model_id = SelectedModel
    /\ request_body = DirectRequest
    /\ main_pc = "off"
    /\ messages = <<>>
    /\ complete_message = ""
    /\ turns = 0
    /\ it_pc = "absent"
    /\ attempt = 0
    /\ current_iterator = "None"
    /\ current_stream = "None"
    /\ ns_pc = "off"
    /\ ns_attempt = 0
    /\ ns_result = NoResult
    /\ calls = 0
    /\ payloads = {}
    /\ transients = 0
    /\ last_error = "none"
    /\ earlier = <<>>
    /\ current = <<>>
    /\ stream_end = "none"
    /\ events_read = 0
    /\ sleeps = <<>>
    /\ delivered = <<>>
    /\ last_pull = NotPulled
    /\ pulls = 0
    /\ ends = 0
    /\ terminated = FALSE
    /\ cancelled = FALSE
    /\ delays = <<>>
    /\ peer = NoPeer
    /\ twin = NoTwin
    /\ session = NoSession

\* Each of the two that is still in its loop runs one pass of it, both with
\* the outcome o of the transport call and the draw k.
TwinPass(o, k) ==
    /\ driver = "twin"
    /\ twin.stream.outcome = "running" \/ twin.invoke.outcome = "running"
    /\ twin' = [stream |-> IF twin.stream.outcome = "running"
                           THEN stream_pass(twin.stream, o, k) ELSE twin.stream,
                invoke |-> IF twin.invoke.outcome = "running"
                           THEN invoke_pass(twin.invoke, o, k) ELSE twin.invoke]
    /\ UNCHANGED <<cfg_vars, req_vars, main_vars, it_vars, ns_vars, net_vars, pull_vars,
                   sleeps, delays, peer, session>>

TwinNext == \E o \in TwinOutcomes, k \in 0..JitterSteps : TwinPass(o, k)

TwinSpec == TwinInit /\ [][TwinNext]_vars

\* ------------------------------------------------ vocabulary of the claims

Streaming == driver \in {"main", "iterator"}

\* The non-streaming call has returned or raised.
InvokeOver == driver = "invoke" /\ ns_pc \in {"returned", "raised"}

\* The iterator has been pulled no further than its first terminal outcome
\* (end of sequence or an error).
UntilFirstTerminal ==
    \/ ends = 0
    \/ ends = 1 /\ it_pc = "idle"
                /\ last_pull.kind \in {"StopIteration", "raised", "MaxRetriesExceeded"}

\* The raw event can be normalised: it has a delta, or no content list, or a
\* content list with a first element.
WellFormed(ev) ==
    Has(ev, "delta") \/ ~Has(ev, "content") \/ ev.content # <<>>

\* Spec 4.1: the kind is the explicit type, else content delta; the text is
\* the delta's text, else the text of the first content element, else empty.
Normalised(ev) ==
    [type |-> IF Has(ev, "type") THEN ev.type ELSE "content_block_delta",
     text |-> IF Has(ev, "delta")
              THEN (IF Has(ev.delta, "text") THEN ev.delta.text ELSE "")
              ELSE IF Has(ev, "content") /\ Has(ev.content[1], "text")
              THEN ev.content[1].text
              ELSE ""]

\* The chunks of the events of evs that can be normalised, in order.
RECURSIVE Chunks(_)
Chunks(evs) ==
    IF evs = <<>> THEN <<>>
    ELSE IF WellFormed(Head(evs)) THEN <<Normalised(Head(evs))>> \o Chunks(Tail(evs))
    ELSE Chunks(Tail(evs))

\* The full response text of a stream: its content-delta texts, in order, up
\* to the first message_stop.
RECURSIVE ResponseText(_)
ResponseText(evs) ==
    IF evs = <<>> THEN ""
    ELSE LET c == Normalised(Head(evs))
         IN  IF c.type = "message_stop" THEN ""
             ELSE IF c.type = "content_block_delta" THEN c.text \o ResponseText(Tail(evs))
             ELSE ResponseText(Tail(evs))

\* ------------------------------------------------------------------ claims

\* C1: a non-streaming create_message with max_retries = N >= 0 whose every
\* transport call fails transiently raises MaxRetriesExceeded after exactly
\* N retries: N+1 calls and N sleeps, and while it is still retrying it has
\* made as many calls and sleeps as its attempt counter says, at most N.
C1_RetryExhaustion ==
    (driver = "invoke" /\ max_retries >= 0 /\ transients = calls) =>
        /\ ns_pc \in {"running", "raised"}
        /\ ns_pc = "running" =>
              /\ calls = ns_attempt
              /\ Len(sleeps) = ns_attempt
              /\ ns_attempt <= max_retries
        /\ ns_pc = "raised" =>
              /\ ns_result.kind = "MaxRetriesExceeded"
              /\ calls = max_retries + 1
              /\ Len(sleeps) = max_retries

C1_Witness ==
    /\ driver = "invoke" /\ max_retries = 2 /\ transients = calls
    /\ ns_pc = "raised" /\ ns_result.kind = "MaxRetriesExceeded"
    /\ calls = 3 /\ Len(sleeps) = 2

\* The body carries a first content element (the response has a text).
HasContentElement(body) == ~Has(body, "content") \/ body.content # <<>>

\* The text of a response body: the text of its first content element.
BodyText(body) ==
    IF Has(body, "content") /\ Has(body.content[1], "text")
    THEN body.content[1].text ELSE ""

FirstCallFailedPermanently ==
    /\ stream_end \in {"unopened", "permanent"}
    /\ transients = 0
    /\ earlier = <<>> /\ current = <<>>
    /\ pulls <= 1

\* C3: a permanent error is never retried, in both modes: when the first
\* invoke_model call, the first stream open or the first pull raises it,
\* exactly one transport call has been made, no sleep has happened, the
\* attempt counter is unchanged, and the caller gets that same error.
C3_PermanentNeverRetried ==
    FirstCallFailedPermanently =>
        /\ calls = 1
        /\ sleeps = <<>>
        /\ attempt = 0 /\ ns_attempt = 0
        /\ driver = "invoke" =>
              /\ ns_pc = "raised"
              /\ ns_result.kind = "raised" /\ ns_result.err = last_error
        /\ Streaming =>
              /\ pulls = 1
              /\ last_pull.kind = "raised" /\ last_pull.err = last_error

C3_Witness ==
    /\ driver = "iterator" /\ FirstCallFailedPermanently
    /\ stream_end = "permanent" /\ last_error = "access_denied"
    /\ last_pull.kind = "raised" /\ last_pull.err = "access_denied"

\* C4: a streaming iterator with max_retries = N >= 0, consumed until its
\* first terminal outcome, opens at most N+1 streams and sleeps at most N
\* times, wherever the transient failures occur; each of the first N
\* transient failures is followed by one sleep, and the (N+1)-th raises
\* MaxRetriesExceeded.
C4_RetryBudget ==
    (Streaming /\ max_retries >= 0 /\ UntilFirstTerminal) =>
        /\ calls <= max_retries + 1
        /\ Len(sleeps) <= max_retries
        /\ transients <= max_retries + 1
        /\ transients <= max_retries => Len(sleeps) = transients
        /\ transients = max_retries + 1 =>
              /\ Len(sleeps) = max_retries
              /\ it_pc = "idle"
              /\ last_pull.kind = "MaxRetriesExceeded"

\* The budget is exhausted by a failure at open after a stream broke mid-way.
C4_Witness ==
    /\ driver = "iterator" /\ max_retries = 2 /\ UntilFirstTerminal
    /\ transients = 3 /\ calls = 3 /\ Len(sleeps) = 2
    /\ earlier # <<>> /\ stream_end = "unopened"
    /\ last_pull.kind = "MaxRetriesExceeded"

\* The first stream delivered events and then broke with a transient error;
\* the second stream opened and ran to its end.
ReconnectedOnce ==
    /\ Streaming /\ ~terminated
    /\ calls = 2 /\ transients = 1
    /\ earlier # <<>>
    /\ stream_end = "eos"

\* C5 as claimed: after such a reconnect the sequence the caller has been
\* given consists of the second stream's chunks only.
C5_OnlySecondStream ==
    ReconnectedOnce => delivered = Chunks(current)

\* C5, amended: after such a reconnect the caller has been given the chunks
\* the first stream delivered before it broke, followed by exactly the second
\* stream's chunks, each once and in order; and the iterator signals the end
\* of the sequence only when the latest stream is exhausted.
C5_ReconnectAppends ==
    /\ ReconnectedOnce =>
          /\ delivered = Chunks(earlier) \o Chunks(current)
          /\ SubSeq(delivered, Len(earlier) + 1, Len(delivered)) = Chunks(current)
    /\ (Streaming /\ ~terminated /\ last_pull.kind = "StopIteration") =>
          stream_end = "eos"

C5_Witness ==
    /\ ReconnectedOnce
    /\ Len(earlier) = 1 /\ Len(current) = 2
    /\ last_pull.kind = "StopIteration"
    /\ Len(delivered) = 3

\* C6: the sequence delivered to the caller is the concatenation, in open
\* order, of the events read successfully from each opened stream, each
\* normalised, each once and in its stream's order; nothing delivered is
\* retracted and nothing is emitted again after a reconnect.
C6_DeliveredIsWhatWasRead ==
    Streaming => delivered = Chunks(earlier \o current)

C6_Witness ==
    /\ driver = "iterator"
    /\ calls = 3 /\ transients = 2
    /\ earlier # <<>> /\ current # <<>>
    /\ Len(delivered) = 3

\* The chat loop has finished a streaming turn: its for loop ended and the
\* accumulated text was appended to the history.
TurnCompleted == driver = "main" /\ main_pc = "prompt" /\ turns > 0

LastMessage == messages[Len(messages)]

\* C7 as claimed: the assistant message a completed streaming turn appends is
\* the full response text of the one stream that reached its end, also when
\* an earlier stream of the turn broke after delivering part of its output.
C7_HistoryIsOneResponse ==
    TurnCompleted =>
        /\ LastMessage.role = "assistant"
        /\ LastMessage.content = ResponseText(current)

\* C8 as claimed: once a pull has raised a terminal error, no later pull
\* opens a stream, sleeps or yields a chunk.
C8_DoneIsAbsorbing ==
    [][terminated =>
          /\ calls' = calls
          /\ sleeps' = sleeps
          /\ delivered' = delivered]_vars

\* The texts of the content-delta chunks, concatenated in order.
RECURSIVE DeltaTexts(_)
DeltaTexts(chunks) ==
    IF chunks = <<>> THEN ""
    ELSE (IF Head(chunks).type = "content_block_delta" THEN Head(chunks).text ELSE "")
         \o DeltaTexts(Tail(chunks))

\* [{delta:{text:'Hel'}}, {delta:{text:'lo'}}, {type:'message_stop'}]
Fixture ==
    << [delta |-> [text |-> "Hel"]],
       [delta |-> [text |-> "lo"]],
       [type |-> "message_stop"] >>

\* C9: in a streaming turn without failures that the chat loop drains, the
\* content-delta texts delivered, concatenated in order, are the stream's
\* full response text, and that is the text the loop accumulates; for the
\* fixture the consumer sees 'Hel', 'lo', then a stop, and accumulates 'Hello'.
C9_ChunkFidelity ==
    (TurnCompleted /\ calls = 1 /\ transients = 0) =>
        /\ DeltaTexts(delivered) = ResponseText(current)
        /\ complete_message = ResponseText(current)
        /\ LastMessage.content = ResponseText(current)
        /\ current = Fixture =>
              /\ delivered = << [type |-> "content_block_delta", text |-> "Hel"],
                                [type |-> "content_block_delta", text |-> "lo"],
                                [type |-> "message_stop", text |-> ""] >>
              /\ complete_message = "Hello"

C9_Witness ==
    /\ TurnCompleted /\ calls = 1 /\ transients = 0
    /\ current = Fixture
    /\ LastMessage.content = "Hello"

\* This step the transport raised an exception (at a call or in a stream).
TransportRaised ==
    /\ calls' # calls \/ stream_end' # stream_end
    /\ stream_end' \in {"unopened", "transient", "permanent"}

\* What this step did with it.
Retried == Len(sleeps') = Len(sleeps) + 1

Exhausted ==
    \/ Streaming /\ pulls' = pulls + 1 /\ last_pull'.kind = "MaxRetriesExceeded"
    \/ driver = "invoke" /\ ns_pc' = "raised" /\ ns_result'.kind = "MaxRetriesExceeded"

Reraised ==
    /\ sleeps' = sleeps
    /\ \/ Streaming /\ pulls' = pulls + 1
                    /\ last_pull'.kind = "raised" /\ last_pull'.err = last_error'
       \/ driver = "invoke" /\ ns_pc' = "raised"
                    /\ ns_result'.kind = "raised" /\ ns_result'.err = last_error'

\* C10: an error is treated as transient (slept on and retried, or counted
\* against the exhausted budget) exactly when its message contains
\* 'ServiceUnavailableException' in any case; every other error, among them
\* access-denied, malformed-request and unknown-model, is raised to the
\* caller as it is; the streaming iterator and the non-streaming loop alike.
C10_Classification ==
    [][TransportRaised =>
          /\ CarriesSignature(ErrorText(last_error')) =>
                (Retried \/ Exhausted) /\ ~Reraised
          /\ ~CarriesSignature(ErrorText(last_error')) =>
                Reraised /\ ~Retried /\ ~Exhausted
          /\ last_error' \in {"access_denied", "malformed", "unknown_model"} =>
                Reraised]_vars

\* An error whose message spells the signature in capitals was retried.
C10_Witness ==
    /\ driver = "iterator"
    /\ last_error = "su_upper"
    /\ calls = 1 /\ sleeps = <<0>> /\ attempt = 1
    /\ current_iterator = "None"

\* The exception an invocation ended with, if it raised one.
RaisedToCaller ==
    IF driver = "invoke" THEN ns_result ELSE last_pull

\* The attempt counter of the invocation.
AttemptCounter == IF driver = "invoke" THEN ns_attempt ELSE attempt

\* C11: MaxRetriesExceeded is raised only on a transient failure met with
\* the attempt counter equal to max_retries; its message ends with the
\* message of the last error the transport raised (the one of the final
\* failed call) and names a count equal to the retries actually performed.
C11_ExhaustionReport ==
    RaisedToCaller.kind = "MaxRetriesExceeded" =>
        /\ AttemptCounter = max_retries
        /\ Signals(last_error) = "transient"
        /\ RaisedToCaller.err = last_error
        /\ RaisedToCaller.msg =
              MaximumRetriesPrefix \o IntStr(Len(sleeps)) \o ExceededLastError
                  \o ErrorText(last_error)

\* Two retries were made; the final failed call raised the capitals message.
C11_Witness ==
    /\ driver = "iterator" /\ max_retries = 2
    /\ last_pull.kind = "MaxRetriesExceeded"
    /\ calls = 3 /\ Len(sleeps) = 2
    /\ last_error = "su_upper"
    /\ Contains(last_pull.msg, ErrorText("su_upper"))
    /\ Contains(last_pull.msg, <<40, 50, 41>>)

\* The un-jittered backoff of attempt a under the configuration in force:
\* min(max_delay, base_delay * 2^a).
Capped(a) ==
    IF base_delay * Pow2(a) <= max_delay THEN base_delay * Pow2(a) ELSE max_delay

\* The durations of the configuration are not negative (as every valid
\* configuration's are: base_delay > 0, max_delay >= base_delay).
NonNegativeDelays == base_delay >= 0 /\ max_delay >= 0

\* C12: under a configuration of non-negative durations every delay computed,
\* for every attempt and every jitter draw, by the iterator's
\* _calculate_delay and by the inline computation of create_message alike, is
\* at least min(max_delay, base_delay * 2^a) and at most 1.1 times that: the
\* jitter is added, never subtracted.
C12_JitterBound ==
    NonNegativeDelays =>
        \A i \in DOMAIN delays :
            /\ delays[i].attempt >= 0
            /\ Capped(delays[i].attempt) <= delays[i].delay
            /\ 10 * delays[i].delay <= 11 * Capped(delays[i].attempt)

\* The inline computation drew the largest jitter on a capped delay.
C12_Witness ==
    /\ driver = "invoke" /\ base_delay = 2000 /\ max_delay = 3000
    /\ Len(delays) = 2
    /\ delays[2].attempt = 1 /\ delays[2].delay = 3300
    /\ delays[1].delay = 2000

\* C13: under a configuration of non-negative durations the backoff without
\* jitter never decreases from one attempt to a later one, and no delay,
\* whatever the jitter draw, exceeds 1.1 times max_delay.
C13_MonotoneAndCapped ==
    NonNegativeDelays =>
        /\ \A i, j \in DOMAIN delays :
              (delays[i].attempt < delays[j].attempt
                  /\ delays[i].draw = 0 /\ delays[j].draw = 0)
              => delays[i].delay <= delays[j].delay
        /\ \A a1, a2 \in 0..(MaxRetries + 1) :
              a1 < a2 => calculate_delay(base_delay, max_delay, a1, 0)
                            <= calculate_delay(base_delay, max_delay, a2, 0)
        /\ \A i \in DOMAIN delays : 10 * delays[i].delay <= 11 * max_delay

\* Without jitter the delay grew from the base to the cap.
C13_Witness ==
    /\ driver = "iterator" /\ base_delay = 2000 /\ max_delay = 3000
    /\ Len(delays) = 2
    /\ delays[1].draw = 0 /\ delays[1].delay = 2000
    /\ delays[2].draw = 0 /\ delays[2].delay = 3000
    /\ attempt = 2

\* A client, an iterator or a call has started to run.
InvocationRuns == pulls > 0 \/ calls > 0 \/ InvokeOver \/ it_pc = "in_next"

\* C14 as claimed: no invocation runs under an invalid retry configuration,
\* and no pull or call returns nothing (None) because max_retries is negative.
C14_ConfigurationValidated ==
    /\ InvocationRuns =>
          (max_retries >= 0 /\ base_delay > 0 /\ max_delay >= base_delay)
    /\ last_pull.kind # "None"
    /\ ns_result.kind # "None"

\* The raw events read from the streams so far.
EventsRead == earlier \o current

\* C15 as claimed: building the chunk of a raw event never raises, whatever
\* the event's shape: no event read makes the wrapper raise and no pull ends
\* with the wrapper's exception.
C15_NormalisationNeverRaises ==
    Streaming =>
        /\ \A i \in DOMAIN EventsRead : BedrockChunkWrapper(EventsRead[i]).raises = "none"
        /\ last_pull.err # IndexError

\* A delta event and a full-content event that carry the same text (and the
\* same type, if any).
SameTextPair(d, c) ==
    /\ Has(d, "delta") /\ Has(d.delta, "text")
    /\ ~Has(c, "delta") /\ Has(c, "content") /\ c.content # <<>>
    /\ Has(c.content[1], "text") /\ c.content[1].text = d.delta.text
    /\ Has(d, "type") = Has(c, "type")
    /\ Has(d, "type") => d.type = c.type

\* The wrapper gives every such pair of events the same chunk.
SameTextSameChunk ==
    \A d, c \in EventShapes :
        SameTextPair(d, c) => BedrockChunkWrapper(d) = BedrockChunkWrapper(c)

\* C16: for every raw event the wrapper builds a chunk from, the chunk's kind
\* is the event's type if it has one and content delta otherwise, and its
\* text is the delta's text if the event has a delta (empty if that has no
\* text), otherwise the text of the first content element, otherwise empty;
\* a delta event and a full-content event with the same text give chunks of
\* the same kind and text.
C16_NormalisationRule ==
    /\ delivered = Chunks(EventsRead)
    /\ \A i \in DOMAIN EventsRead :
          LET w == BedrockChunkWrapper(EventsRead[i])
          IN  w.raises = "none" =>
                  [type |-> w.type, text |-> w.delta.text] = Normalised(EventsRead[i])
    /\ \A i, j \in DOMAIN EventsRead :
          SameTextPair(EventsRead[i], EventsRead[j]) =>
              delivered[i] = delivered[j]
    /\ SameTextSameChunk

\* An event with an explicit type, no delta and a two-element content list was
\* delivered as a chunk of that type with the first element's text.
C16_Witness ==
    /\ current = << [type |-> "message_delta",
                     content |-> <<[text |-> "Hel"], [text |-> "lo"]>>] >>
    /\ delivered = << [type |-> "message_delta", text |-> "Hel"] >>
    /\ last_pull.kind = "chunk"

\* The iterator exists.
Created == it_pc \in {"idle", "in_next"}

\* C17: create_message(stream=True) makes no transport call; the first open
\* happens in the first pull; and every open, the first and each reopen after
\* a transient failure, sends one and the same payload, the one built from
\* the arguments create_message was given, whatever the caller has appended
\* to its message list since.
C17_LazyOriginalRequest ==
    /\ [](/\ ~Created => calls = 0 /\ payloads = {}
          /\ (Created /\ pulls = 0 /\ it_pc = "idle") => calls = 0 /\ payloads = {}
          /\ (Created /\ pulls > 0) => calls >= 1
          /\ calls >= 1 =>
                /\ payloads = {InvokePayload(model_id, request_body)}
                /\ \E system \in SystemArgs, max_tokens \in MaxTokensArgs,
                      temperature \in TemperatureArgs, n \in 1..Len(messages) :
                          request_body = RequestBody(SubSeq(messages, 1, n), system,
                                                     max_tokens, temperature))
    /\ [][Created => request_body' = request_body /\ model_id' = model_id]_vars

\* The caller appended to its list after create_message; the first stream
\* failed transiently and a second one was opened with the payload of the
\* one-message list.
C17_Witness ==
    /\ Created /\ Len(messages) = 3
    /\ calls = 2 /\ transients = 1 /\ stream_end = "live"
    /\ Cardinality(payloads) = 1
    /\ Len(request_body.messages) = 1
    /\ request_body.temperature = 7 /\ Has(request_body, "system")

\* The chunks the chat loop has been given in this turn end with a message stop.
StopReceived ==
    /\ driver = "main" /\ delivered # <<>>
    /\ delivered[Len(delivered)].type = "message_stop"

\* C18: the chat loop stops consuming on a message-stop chunk: a message stop
\* is the last chunk it ever receives in a turn; once received, the loop is
\* over (no pull is made or in progress) and the text appended to the history
\* is the text accumulated from the chunks before the stop, whatever the
\* transport still holds.
C18_StopsOnMessageStop ==
    driver = "main" =>
        /\ \A i \in 1..(Len(delivered) - 1) : delivered[i].type # "message_stop"
        /\ StopReceived =>
              /\ main_pc \in {"prompt", "exited"}
              /\ it_pc = "idle"
              /\ complete_message = DeltaTexts(delivered)
              /\ LastMessage = [role |-> "assistant", content |-> complete_message]

\* The stop came while the stream was still open and able to deliver more.
C18_Witness ==
    /\ StopReceived
    /\ stream_end = "live" /\ current_iterator = "live"
    /\ events_read < MaxEvents
    /\ complete_message = "Hel"
    /\ LastMessage.content = "Hel"

\* C19 as claimed: an interrupt that arrives during a backoff sleep or a pull
\* reaches the caller, after which the iterator holds no stream, and nothing
\* follows it: no sleep, no open, no attempt increment, no chunk.
C19_CancellationReleases ==
    /\ [](cancelled => current_stream = "None")
    /\ [][cancelled =>
             /\ calls' = calls
             /\ sleeps' = sleeps
             /\ attempt' = attempt
             /\ delivered' = delivered]_vars

\* The positions of the messages of msgs that have a non-empty content.
WithContent(msgs) == {i \in DOMAIN msgs : msgs[i].content # <<>>}

\* The position in msgs of the k-th message that has a non-empty content.
KthWithContent(msgs, k) ==
    CHOOSE i \in WithContent(msgs) :
        Cardinality({j \in WithContent(msgs) : j < i}) = k - 1

\* The list `sent` is the messages of msgs that have a content, in the order
\* of msgs, each with its role and its text.
IsOrderedContentOf(sent, msgs) ==
    /\ Len(sent) = Cardinality(WithContent(msgs))
    /\ \A k \in DOMAIN sent :
          /\ sent[k].role = msgs[KthWithContent(msgs, k)].role
          /\ sent[k].content =
                <<[type |-> "text", text |-> msgs[KthWithContent(msgs, k)].content]>>

\* The message list of a payload sent to the transport.
PayloadMessages(p) == p.body[2][2]

\* C21: the message list of the request payload is exactly the messages
\* create_message was given that have a non-empty content, in their order and
\* with their roles and texts; the list the iterator holds is never changed
\* afterwards, and every open, the first and each retry, sends that list.
C21_OrderPreserved ==
    /\ [][(~Created /\ Created') =>
              IsOrderedContentOf(request_body'.messages, messages)]_vars
    /\ [][Created => request_body'.messages = request_body.messages]_vars
    /\ [](\A p \in payloads :
              /\ p.body[2][1] = "messages"
              /\ PayloadMessages(p) = request_body.messages)

\* A list whose second message is empty was sent twice, the second time
\* after a transient failure, as its first and third message in that order.
C21_Witness ==
    /\ Created /\ calls = 2 /\ transients = 1 /\ stream_end = "live"
    /\ Len(messages) = 3 /\ messages[2].content = <<>>
    /\ \A p \in payloads :
          PayloadMessages(p) =
              << [role |-> "user", content |-> <<[type |-> "text", text |-> <<104,105>>]>>],
                 [role |-> "user", content |-> <<[type |-> "text", text |-> <<121,111>>]>>] >>
    /\ Cardinality(payloads) = 1

\* The generation parameters a caller can supply: a positive max_tokens and a
\* temperature of the closed range from 0 to 1 (in tenths).
SuppliedMaxTokens == {n \in MaxTokensArgs : n > 0}
SuppliedTemperatures == {t \in TemperatureArgs : t >= 0 /\ t <= 10}

\* C22 as claimed: whenever create_message is given a max_tokens and a
\* temperature, temperature 0 included, the request it builds has exactly
\* that max_tokens and that temperature, and a system instruction exactly
\* when one is given; and that request is what is sent to the transport.
C22_ParametersCarried ==
    /\ [][\A system \in SystemArgs, max_tokens \in SuppliedMaxTokens,
             temperature \in SuppliedTemperatures :
               CreateMessage(system, max_tokens, temperature) =>
                   /\ request_body'.max_tokens = max_tokens
                   /\ request_body'.temperature = temperature
                   /\ Has(request_body', "system") <=> system # ""
                   /\ system # "" => request_body'.system = system]_vars
    /\ [](\A p \in payloads : p.body = Dumps(request_body))

\* The invocation has had its first terminal outcome: a pull ended the
\* sequence or raised, or the non-streaming call returned or raised.
Settled ==
    \/ driver = "iterator" /\ it_pc = "idle" /\ ends >= 1
    \/ InvokeOver

\* C23: when every transport call, stream read and sleep returns and every
\* stream is finite, a consumer that pulls until the first end of sequence or
\* error reaches one, whatever transient and permanent failures occur and
\* for every max_retries >= 0; and every non-streaming create_message returns
\* or raises.
C23_NeverHangs == <>Settled

\* The consumer got through two reconnects and three chunks to the end of
\* the third stream.
C23_Witness ==
    /\ driver = "iterator" /\ max_retries = 2 /\ Settled
    /\ transients = 2 /\ calls = 3 /\ Len(sleeps) = 2
    /\ Len(delivered) = 3 /\ pulls = 4
    /\ last_pull.kind = "StopIteration"

\* This step the invocation slept / called the transport.
Slept == Len(sleeps') = Len(sleeps) + 1
Called == calls' = calls + 1

\* C24: in an invocation run to its first outcome, the k-th backoff sleep is
\* the one for the k-th transient failure and its delay is computed with
\* attempt = k-1; the counter is incremented with the sleep done, never before
\* it; a sleep follows the failed call it belongs to and precedes the next
\* call, so that between two consecutive transport calls there is exactly one
\* sleep, none before the first call and none after the last.
C24_BackoffOrdering ==
    /\ [](/\ \A k \in DOMAIN sleeps : sleeps[k] = k - 1
          /\ AttemptCounter = Len(sleeps)
          /\ calls = 0 => sleeps = <<>>
          /\ calls >= 1 => Len(sleeps) \in {calls - 1, calls}
          /\ Settled => calls = Len(sleeps) + 1)
    /\ [][/\ Called => calls = Len(sleeps)
          /\ Slept => /\ sleeps' = Append(sleeps, AttemptCounter)
                      /\ AttemptCounter' = AttemptCounter + 1
                      /\ transients' = Len(sleeps')
                      /\ calls' = Len(sleeps')
          /\ ~Slept => sleeps' = sleeps /\ AttemptCounter' = AttemptCounter
          /\ calls' \in {calls, calls + 1}]_vars

\* The second sleep, computed with attempt 1, is done and the third call is
\* yet to be made.
C24_Witness ==
    /\ driver = "iterator" /\ it_pc = "in_next"
    /\ sleeps = <<0, 1>> /\ attempt = 2 /\ calls = 2 /\ transients = 2
    /\ current_iterator = "None"

\* The retries an invocation with `failures` transient failures of its own
\* has made: one for each, up to max_retries.
OwnRetries(failures) == IF failures <= max_retries THEN failures ELSE max_retries

\* The state of the first iterator as its caller and its fields show it.
FirstInvocation == <<it_vars, pull_vars, sleeps>>

\* C20: with two invocations of one client interleaved in any order, each
\* one's attempt counter counts its own transient failures only, and a step
\* of either (a failure, a retry, an exhaustion, a chunk) leaves the other's
\* attempt counter, current stream and outcome as they were.
C20_Independent ==
    /\ [](/\ attempt = OwnRetries(transients)
          /\ attempt = Len(sleeps)
          /\ peer.attempt = OwnRetries(peer.transients)
          /\ peer.attempt = peer.sleeps)
    /\ [][/\ peer' # peer => FirstInvocation' = FirstInvocation
          /\ FirstInvocation' # FirstInvocation => peer' = peer]_vars

\* The first iterator has exhausted its retries while the second, after one
\* retry of its own, is delivering chunks.
C20_Witness ==
    /\ max_retries = 2
    /\ attempt = 2 /\ transients = 3 /\ last_pull.kind = "MaxRetriesExceeded"
    /\ peer.mode = "stream" /\ peer.attempt = 1 /\ peer.transients = 1
    /\ peer.outcome = "chunk" /\ peer.current_iterator = "live"
    /\ current_iterator = "finished"

\* This step the iterator met a transient failure and did not raise it: it
\* slept and will reconnect.
Absorbed ==
    /\ transients' = transients + 1
    /\ ~(pulls' = pulls + 1 /\ last_pull'.kind = "MaxRetriesExceeded")

\* C25: in every state of a streaming iterator with max_retries >= 0 the
\* attempt counter lies between 0 and max_retries; it is 0 when the iterator is
\* built, never decreases, is left alone by a chunk a reconnected stream
\* delivers, and grows by one exactly when a transient failure is absorbed,
\* so that it equals the number of failures absorbed, which is the number of
\* backoff sleeps.
C25_RetryState ==
    /\ []((Streaming /\ max_retries >= 0) =>
              /\ 0 <= attempt /\ attempt <= max_retries
              /\ attempt = Len(sleeps)
              /\ (it_pc = "idle" /\ pulls = 0) => attempt = 0
              /\ UntilFirstTerminal => attempt = OwnRetries(transients))
    /\ [][(Streaming /\ max_retries >= 0) =>
              /\ turns' # turns => attempt' = 0
              /\ turns' = turns =>
                    attempt' = attempt + (IF Absorbed THEN 1 ELSE 0)]_vars

\* A reconnected stream has delivered two chunks and the counter still
\* stands at the one failure absorbed.
C25_Witness ==
    /\ driver = "iterator" /\ max_retries = 2
    /\ attempt = 1 /\ transients = 1 /\ calls = 2
    /\ Len(current) = 2 /\ Len(delivered) = 2
    /\ stream_end = "live" /\ last_pull.kind = "chunk"

\* The outcomes a pull may have.
PullOutcomes == {"chunk", "StopIteration", "raised", "MaxRetriesExceeded"}

\* C26: every completed pull on a streaming iterator with max_retries >= 0
\* returned a normalised chunk (the one of the event read last), signalled the
\* end of the sequence, raised an error that is not transient, or raised
\* MaxRetriesExceeded for a transient one; no pull raised a transient error
\* as it is and no pull returned anything but a chunk.
C26_PullOutcomes ==
    (Streaming /\ max_retries >= 0 /\ pulls > 0) =>
        /\ last_pull.kind \in PullOutcomes
        /\ last_pull.kind # "None"
        /\ last_pull.kind = "chunk" =>
              /\ last_pull.err = "none"
              /\ EventsRead # <<>> /\ WellFormed(EventsRead[Len(EventsRead)])
              /\ [type |-> last_pull.type, text |-> last_pull.text]
                    = Normalised(EventsRead[Len(EventsRead)])
              /\ delivered # <<>>
              /\ delivered[Len(delivered)]
                    = [type |-> last_pull.type, text |-> last_pull.text]
        /\ last_pull.kind = "StopIteration" => last_pull.err = "none"
        /\ last_pull.kind = "raised" =>
              /\ last_pull.err \in TransportErrors \cup {"su_event", IndexError}
              /\ ~CarriesSignature(ErrorText(last_pull.err))
        /\ last_pull.kind = "MaxRetriesExceeded" =>
              /\ last_pull.err \in TransportErrors \cup {"su_event"}
              /\ CarriesSignature(ErrorText(last_pull.err))

\* An iterator that does not retry delivered a chunk and then, its stream
\* failing transiently, raised MaxRetriesExceeded.
C26_Witness ==
    /\ driver = "iterator" /\ max_retries = 0
    /\ pulls = 2 /\ Len(delivered) = 1
    /\ stream_end = "transient"
    /\ last_pull.kind = "MaxRetriesExceeded" /\ last_pull.err = "su_upper"

\* The latest stream of the iterator has come to its natural end.
EndedNaturally == Streaming /\ stream_end = "eos"

\* C27: the pull that finds the open stream exhausted signals the end of the
\* sequence without a sleep, an attempt increment or a transport call (but
\* the open itself, when the stream was yet to be opened); from then on the
\* iterator stays ended: every later pull signals the end again, and none
\* calls the transport, sleeps, counts an attempt or delivers a chunk.
C27_EndStaysEnded ==
    /\ [](EndedNaturally =>
              /\ current_iterator = "finished"
              /\ last_pull.kind = "StopIteration"
              /\ ends >= 1)
    /\ [][(Streaming /\ stream_end # "eos" /\ stream_end' = "eos") =>
              /\ pulls' = pulls + 1
              /\ last_pull'.kind = "StopIteration"
              /\ sleeps' = sleeps /\ attempt' = attempt
              /\ delivered' = delivered
              /\ calls' = (IF current_iterator = "live" THEN calls ELSE calls + 1)]_vars
    /\ [][(EndedNaturally /\ turns' = turns) =>
              /\ stream_end' = "eos"
              /\ calls' = calls /\ payloads' = payloads
              /\ sleeps' = sleeps /\ attempt' = attempt
              /\ delivered' = delivered
              /\ pulls' # pulls =>
                    (pulls' = pulls + 1 /\ last_pull'.kind = "StopIteration")]_vars

\* After a chunk the stream ended, and the pull after that signalled the end
\* again: one transport call in all.
C27_Witness ==
    /\ driver = "iterator" /\ EndedNaturally
    /\ pulls = 3 /\ ends = 2 /\ it_pc = "idle"
    /\ calls = 1 /\ Len(delivered) = 1 /\ sleeps = <<>>

\* The transport calls a run has made and the delays it has slept, in order.
CallsOf(run) == SelectSeq(run.log, LAMBDA x : x.op = "call")
SleepsOf(run) == SelectSeq(run.log, LAMBDA x : x.op = "sleep")
CallsAndSleepsOf(run) == SelectSeq(run.log, LAMBDA x : x.op \in {"call", "sleep"})

\* C28: given the same max_retries, base_delay and max_delay, the same
\* outcome of each transport call (every failure of the stream at its open)
\* and the same jitter draws, the streaming iterator and the non-streaming
\* loop make the same transport calls and sleeps in the same order, with the
\* same delays, count the same attempts and end in the same way: success,
\* the permanent error, or MaxRetriesExceeded.
C28_SamePolicy ==
    /\ CallsAndSleepsOf(twin.stream) = CallsAndSleepsOf(twin.invoke)
    /\ CallsOf(twin.stream) = CallsOf(twin.invoke)
    /\ SleepsOf(twin.stream) = SleepsOf(twin.invoke)
    /\ twin.stream.attempt = twin.invoke.attempt
    /\ twin.stream.outcome = twin.invoke.outcome

\* Both made three calls with sleeps of 2000 and 3300 between them and gave
\* up.
C28_Witness ==
    /\ driver = "twin" /\ max_retries = 2
    /\ twin.stream.outcome = "MaxRetriesExceeded"
    /\ twin.invoke.outcome = "MaxRetriesExceeded"
    /\ Len(CallsOf(twin.invoke)) = 3
    /\ SleepsOf(twin.stream) = << [op |-> "sleep", delay |-> 2000],
                                  [op |-> "sleep", delay |-> 3300] >>

\* The retry notices a run has printed, in order.
ReportsOf(run) == SelectSeq(run.log, LAMBDA x : x.op = "report")

\* In the log of a run every sleep comes directly after a notice, which gives
\* its delay (to the hundredth of a second) and the number of the retry out
\* of max_retries, and every notice comes directly before a sleep.
ReportedBeforeEachSleep(run) ==
    /\ \A i \in DOMAIN run.log :
          run.log[i].op = "sleep" =>
              /\ i > 1 /\ run.log[i - 1].op = "report"
              /\ 10 * run.log[i - 1].delay - run.log[i].delay \in (-5)..5
              /\ run.log[i - 1].number = Len(SelectSeq(SubSeq(run.log, 1, i),
                                                       LAMBDA x : x.op = "sleep"))
    /\ \A i \in DOMAIN run.log :
          run.log[i].op = "report" =>
              /\ i < Len(run.log) /\ run.log[i + 1].op = "sleep"
              /\ run.log[i].number >= 1 /\ run.log[i].number <= max_retries
              /\ run.log[i].of = max_retries
    /\ \A k \in DOMAIN ReportsOf(run) : ReportsOf(run)[k].number = k
    /\ Len(ReportsOf(run)) = Len(SleepsOf(run))
    /\ run.outcome # "running" =>
          (run.log = <<>> \/ run.log[Len(run.log)].op = "call")

\* C29: each retry, of the streaming iterator and of the non-streaming loop,
\* prints one notice before its sleep, with the delay and with the number of
\* the retry: the k-th retry says attempt k out of max_retries, a number
\* between 1 and max_retries; nothing is printed for a permanent error or
\* when the retries are exhausted.
C29_RetryReported ==
    /\ ReportedBeforeEachSleep(twin.stream)
    /\ ReportedBeforeEachSleep(twin.invoke)

\* The second retry of two was announced as attempt 2 of 2 with a delay of
\* 3.30 seconds; the third failure was raised without a notice.
C29_Witness ==
    /\ driver = "twin" /\ max_retries = 2
    /\ twin.stream.outcome = "MaxRetriesExceeded"
    /\ Len(twin.stream.log) = 7
    /\ twin.stream.log[5] = [op |-> "report", delay |-> 330, number |-> 2, of |-> 2]
    /\ twin.stream.log[6] = [op |-> "sleep", delay |-> 3300]
    /\ twin.stream.log[7].op = "call"

\* C30 as claimed: whatever the user submits, the chat loop invokes the model
\* for a response only with a history that ends with a user message, and the
\* history never holds an assistant message that does not follow a user
\* message.
C30_InvokedAfterUserMessage ==
    driver = "main" =>
        /\ main_pc = "streaming" =>
              (messages # <<>> /\ LastMessage.role = "user")
        /\ \A i \in DOMAIN messages :
              messages[i].role = "assistant" =>
                  (i > 1 /\ messages[i - 1].role = "user")

\* ------------------------------------------------------------------ C31

\* This step hands the consumer a chunk of type content_block_delta whose text
\* is not empty.
DeltaHandedOver ==
    /\ pulls' = pulls + 1
    /\ last_pull'.kind = "chunk"
    /\ last_pull'.type = "content_block_delta"
    /\ last_pull'.text # ""

\* C31: while the chat loop consumes a stream, a step changes the accumulated
\* response only by handing over a chunk of type content_block_delta with a
\* non-empty text, whose text is then appended to it; every other step, the
\* handing over of a chunk of any other type included, leaves it as it was.
C31_OnlyDeltasAppend ==
    [][ (driver = "main" /\ main_pc = "streaming") =>
            IF DeltaHandedOver
            THEN complete_message' = complete_message \o last_pull'.text
            ELSE complete_message' = complete_message ]_vars

\* The consumer has appended "Hel" and was then handed a message_delta chunk
\* with the text "lo", which it left out.
C31_Witness ==
    /\ driver = "main"
    /\ main_pc = "streaming"
    /\ Len(delivered) = 2
    /\ delivered[1] = [type |-> "content_block_delta", text |-> "Hel"]
    /\ delivered[2] = [type |-> "message_delta", text |-> "lo"]
    /\ complete_message = "Hel"
\* ------------------------------------------------------------------ C32

\* C32: in a session in which PERPLEXITY_API_KEY is not set, with or without
\* --web-search, no turn calls should_perform_web_search and no turn makes a
\* web search.
C32_NoSearchWithoutKey ==
    (driver = "main" /\ ~session.PERPLEXITY_API_KEY) =>
        /\ session.decisions = 0
        /\ session.searches = 0
        /\ session.posts = 0
====
